---- MODULE Spec2Model ----
(***************************************************************************)
(* Model of AddressEnhancer (reverse_geocoding_batch_processor/            *)
(* address_enhancer.py): the pure text heuristics, complete_address,       *)
(* enrich_location_data and the batch loop process_address_batch.          *)
(*                                                                         *)
(* Conventions                                                             *)
(*   - a Python str is a sequence of one-character strings;                *)
(*   - an optional value (a dict key that may be absent, an argument that  *)
(*     may be None) is a sequence of length 0 or 1: None == <<>>;          *)
(*   - a float that the code only compares or copies is an integer number  *)
(*     of hundredths (0.9 is 90, 0.25 is 25);                              *)
(*   - the geocoding provider is external: every call returns, by a        *)
(*     nondeterministic choice, an exception, the empty list or a list     *)
(*     whose first candidate is one of Candidates.                         *)
(***************************************************************************)
EXTENDS Integers, Sequences, FiniteSets, TLC

None == <<>>
Some(v) == <<v>>

(***************************************************************************)
(* Characters and the str methods the code uses.                           *)
(***************************************************************************)
LowerLetters == <<"a","b","c","d","e","f","g","h","i","j","k","l","m",
                  "n","o","p","q","r","s","t","u","v","w","x","y","z",
                  "á","é","í","ó","ú","ñ","ü","ç">>
UpperLetters == <<"A","B","C","D","E","F","G","H","I","J","K","L","M",
                  "N","O","P","Q","R","S","T","U","V","W","X","Y","Z",
                  "Á","É","Í","Ó","Ú","Ñ","Ü","Ç">>
Digits == {"0","1","2","3","4","5","6","7","8","9"}

Range(f) == {f[k] : k \in DOMAIN f}
IsLetter(c) == c \in Range(LowerLetters) \cup Range(UpperLetters)
IsDigit(c) == c \in Digits
\* \w of the re module
IsWordChar(c) == IsLetter(c) \/ IsDigit(c) \/ c = "_"
\* \s of the re module, str.split() and str.strip()
IsSpace(c) == c \in {" ", "\t", "\n"}

IndexIn(c, tab) == CHOOSE k \in DOMAIN tab : tab[k] = c
ToLower(c) == IF c \in Range(UpperLetters) THEN LowerLetters[IndexIn(c, UpperLetters)] ELSE c
ToUpper(c) == IF c \in Range(LowerLetters) THEN UpperLetters[IndexIn(c, LowerLetters)] ELSE c

\* str.lower()
Lower(s) == [k \in 1..Len(s) |-> ToLower(s[k])]

\* s[i:j] of Python with 1-based inclusive bounds
Slice(s, i, j) == IF i > j THEN <<>> ELSE SubSeq(s, i, j)

Min(S) == CHOOSE x \in S : \A y \in S : x <= y
Max(S) == CHOOSE x \in S : \A y \in S : x >= y

\* the characters of s at the positions P, in order
Pick(s, P) ==
    [n \in 1..Cardinality(P) |->
        s[CHOOSE p \in P : Cardinality({q \in P : q < p}) = n - 1]]

\* str.strip()
Strip(s) ==
    LET solid == {k \in 1..Len(s) : ~IsSpace(s[k])}
    IN IF solid = {} THEN <<>> ELSE Slice(s, Min(solid), Max(solid))

\* str.split(): the maximal runs of non-whitespace characters
Split(s) ==
    LET starts == {k \in 1..Len(s) : ~IsSpace(s[k]) /\ (k = 1 \/ IsSpace(s[k - 1]))}
        EndOf(k) == Max({e \in k..Len(s) : \A j \in k..e : ~IsSpace(s[j])})
    IN [n \in 1..Cardinality(starts) |->
           LET k == CHOOSE p \in starts : Cardinality({q \in starts : q < p}) = n - 1
           IN Slice(s, k, EndOf(k))]

\* sep.join(words)
RECURSIVE Join(_, _)
Join(words, sep) ==
    IF words = <<>> THEN <<>>
    ELSE IF Len(words) = 1 THEN words[1]
    ELSE words[1] \o sep \o Join(Tail(words), sep)

\* str.capitalize(): first character upper-cased, the rest lower-cased
Capitalize(w) == [k \in 1..Len(w) |-> IF k = 1 THEN ToUpper(w[k]) ELSE ToLower(w[k])]

\* str.title(): a letter is upper-cased when the previous character is not a
\* letter, lower-cased otherwise
Title(s) ==
    [k \in 1..Len(s) |->
        IF k = 1 \/ ~IsLetter(s[k - 1]) THEN ToUpper(s[k]) ELSE ToLower(s[k])]

\* pat occurs in s at position i
MatchAt(s, i, pat) ==
    /\ i >= 1
    /\ i + Len(pat) - 1 <= Len(s)
    /\ \A k \in 1..Len(pat) : s[i + k - 1] = pat[k]

\* pat in s
Contains(s, pat) == \E i \in 1..(Len(s) + 1) : MatchAt(s, i, pat)

\* str.replace(old, new) for a non-empty old: the non-overlapping occurrences,
\* left to right
RECURSIVE ReplaceFrom(_, _, _, _)
ReplaceFrom(s, i, old, new) ==
    LET hits == {j \in i..Len(s) : MatchAt(s, j, old)}
    IN IF hits = {} THEN Slice(s, i, Len(s))
       ELSE Slice(s, i, Min(hits) - 1) \o new
            \o ReplaceFrom(s, Min(hits) + Len(old), old, new)
Replace(s, old, new) == ReplaceFrom(s, 1, old, new)

\* \b of the re module at the gap before position i of s (1 <= i <= Len(s)+1):
\* exactly one of the two neighbours is a word character
Boundary(s, i) ==
    LET before == i > 1 /\ IsWordChar(s[i - 1])
        after == i <= Len(s) /\ IsWordChar(s[i])
    IN before # after

\* re.sub(r'\b' + re.escape(pat) + r'\b', rep, s): the non-overlapping matches,
\* left to right
RECURSIVE SubWordFrom(_, _, _, _)
SubWordFrom(s, i, pat, rep) ==
    LET hits == {j \in i..Len(s) :
                    MatchAt(s, j, pat) /\ Boundary(s, j) /\ Boundary(s, j + Len(pat))}
    IN IF hits = {} THEN Slice(s, i, Len(s))
       ELSE Slice(s, i, Min(hits) - 1) \o rep
            \o SubWordFrom(s, Min(hits) + Len(pat), pat, rep)
SubWord(s, pat, rep) == SubWordFrom(s, 1, pat, rep)

\* re.sub(r'\s+', ' ', s): each run of whitespace becomes one space
CollapseSpaces(s) ==
    LET kept == {k \in 1..Len(s) : ~(IsSpace(s[k]) /\ k > 1 /\ IsSpace(s[k - 1]))}
        picked == Pick(s, kept)
    IN [n \in 1..Len(picked) |-> IF IsSpace(picked[n]) THEN " " ELSE picked[n]]

(***************************************************************************)
(* Python values that reach the code with more than one type: an address   *)
(* cell may hold a str, None or a number (a NaN of a CSV column), a        *)
(* postcode component may be a str or a number.                            *)
(***************************************************************************)
PyStr(s) == [t |-> "str", s |-> s, n |-> 0]
PyNone == [t |-> "none", s |-> <<>>, n |-> 0]
PyNum(n) == [t |-> "num", s |-> <<>>, n |-> n]
IsStr(v) == v.t = "str"
\* the truth value Python gives v in `if v` / `if not v`
Truthy(v) == CASE v.t = "str" -> v.s # <<>>
               [] v.t = "num" -> v.n # 0
               [] OTHER -> FALSE

\* seq[:n]
PySliceTo(seq, n) ==
    LET m == IF n >= 0 THEN n ELSE Len(seq) + n
    IN IF m <= 0 THEN <<>> ELSE IF m >= Len(seq) THEN seq ELSE SubSeq(seq, 1, m)

(***************************************************************************)
(* A small matcher for the regular expressions of the code: a pattern is a *)
(* set of alternatives, an alternative a sequence of items, an item a      *)
(* character class repeated lo..hi times, or the zero-width \b.            *)
(***************************************************************************)
AsciiUpper == {UpperLetters[k] : k \in 1..26}
ClassHas(cls, c) ==
    CASE cls = "d" -> IsDigit(c)
      [] cls = "A-Z" -> c \in AsciiUpper
      [] cls = "A-Zd" -> c \in AsciiUpper \/ IsDigit(c)
      [] cls = "s" -> IsSpace(c)
      [] cls = "-" -> c = "-"
      [] OTHER -> FALSE
It(cls, lo, hi) == [cls |-> cls, lo |-> lo, hi |-> hi]
WordBoundary == It("b", 0, 0)

\* the positions at which a match of items that starts at i can end
RECURSIVE MatchEnds(_, _, _)
MatchEnds(s, i, items) ==
    IF items = <<>> THEN {i}
    ELSE LET it == Head(items)
         IN IF it.cls = "b"
            THEN (IF Boundary(s, i) THEN MatchEnds(s, i, Tail(items)) ELSE {})
            ELSE UNION { MatchEnds(s, i + m, Tail(items)) :
                         m \in { r \in it.lo..it.hi :
                                 \A k \in 0..(r - 1) :
                                     i + k <= Len(s) /\ ClassHas(it.cls, s[i + k]) } }

\* re.search(pattern, s)
ReSearch(pattern, s) ==
    \E alt \in pattern : \E i \in 1..(Len(s) + 1) : MatchEnds(s, i, alt) # {}
\* re.match('^...$', s) for s without a trailing newline
ReFullMatch(pattern, s) ==
    \E alt \in pattern : (Len(s) + 1) \in MatchEnds(s, 1, alt)

(***************************************************************************)
(* The loops over a table below stop early on the empty string, which no   *)
(* replacement changes.                                                    *)
(***************************************************************************)

(***************************************************************************)
(* clean_address_text                                                      *)
(***************************************************************************)
\* the characters re.sub removes; "backtick" names the backquote character
SymbolChars == {"?","¿","!","¡","@","#","$","%","^","&","*","(",")","_","+","=",
                "<",">","{","}","[","]","|","\\","/",":",";","\"","'","backtick","~"}
\* the characters outside Latin-1 are written by name (e_tilde, i_tilde, u_tilde)
AccentReplacements ==
    << <<"á",<<"a">>>>, <<"é",<<"e">>>>, <<"í",<<"i">>>>, <<"ó",<<"o">>>>, <<"ú",<<"u">>>>,
       <<"à",<<"a">>>>, <<"è",<<"e">>>>, <<"ì",<<"i">>>>, <<"ò",<<"o">>>>, <<"ù",<<"u">>>>,
       <<"ä",<<"a">>>>, <<"ë",<<"e">>>>, <<"ï",<<"i">>>>, <<"ö",<<"o">>>>, <<"ü",<<"u">>>>,
       <<"â",<<"a">>>>, <<"ê",<<"e">>>>, <<"î",<<"i">>>>, <<"ô",<<"o">>>>, <<"û",<<"u">>>>,
       <<"ã",<<"a">>>>, <<"e_tilde",<<"e">>>>, <<"i_tilde",<<"i">>>>, <<"õ",<<"o">>>>, <<"u_tilde",<<"u">>>>,
       <<"ñ",<<"n">>>>, <<"ç",<<"c">>>>, <<"ß",<<"s","s">>>> >>

\* re.sub(r'[...]', '', text)
RemoveSymbols(s) == SelectSeq(s, LAMBDA c : c \notin SymbolChars)

RECURSIVE FoldAccents(_, _)
FoldAccents(s, table) ==
    IF table = <<>> \/ s = <<>> THEN s
    ELSE FoldAccents(Replace(s, <<Head(table)[1]>>, Head(table)[2]), Tail(table))

\* a cleaning that trims the ends before it removes the symbols
clean_address_text_trimming_first(text, aggressive) ==
    IF text = <<>> THEN text
    ELSE LET stripped == RemoveSymbols(Strip(text))
             cleaned == IF aggressive THEN FoldAccents(stripped, AccentReplacements)
                        ELSE stripped
         IN CollapseSpaces(cleaned)

clean_address_text(text, aggressive) ==
    IF text = <<>> THEN text
    ELSE LET stripped == RemoveSymbols(text)
             cleaned == IF aggressive THEN FoldAccents(stripped, AccentReplacements)
                        ELSE stripped
         IN Strip(CollapseSpaces(cleaned))

(***************************************************************************)
(* normalize_address_format                                                *)
(***************************************************************************)
Abbr(full, abbrevs) == [full |-> full, abbrevs |-> abbrevs]
common_abbreviations ==
    << Abbr(<<"c","a","l","l","e">>, <<<<"c","/">>, <<"c","\\">>, <<"c","l">>, <<"c","l",".">>, <<"c","a","l","l">>>>),
       Abbr(<<"a","v","e","n","i","d","a">>, <<<<"a","v">>, <<"a","v",".">>, <<"a","v","d","a">>, <<"a","v","d","a",".">>, <<"a","v","e","n">>>>),
       Abbr(<<"p","l","a","z","a">>, <<<<"p","l">>, <<"p","l",".">>, <<"p","l","z">>>>),
       Abbr(<<"p","a","s","e","o">>, <<<<"p","s">>, <<"p","s",".">>, <<"p","s","o">>>>),
       Abbr(<<"c","a","r","r","e","r","a">>, <<<<"c","r">>, <<"c","r",".">>, <<"c","r","a">>, <<"c","r","a",".">>>>),
       Abbr(<<"d","i","a","g","o","n","a","l">>, <<<<"d","g">>, <<"d","g",".">>, <<"d","i","a","g">>>>),
       Abbr(<<"t","r","a","n","s","v","e","r","s","a","l">>, <<<<"t","v">>, <<"t","v",".">>, <<"t","r","a","n","s">>>>),
       Abbr(<<"s","t","r","e","e","t">>, <<<<"s","t">>, <<"s","t",".">>, <<"s","t","r">>, <<"s","t","r",".">>>>),
       Abbr(<<"a","v","e","n","u","e">>, <<<<"a","v","e">>, <<"a","v","e",".">>, <<"a","v">>>>),
       Abbr(<<"b","o","u","l","e","v","a","r","d">>, <<<<"b","l","v","d">>, <<"b","l","v","d",".">>, <<"b","o","u","l">>>>),
       Abbr(<<"r","o","a","d">>, <<<<"r","d">>, <<"r","d",".">>>>),
       Abbr(<<"d","r","i","v","e">>, <<<<"d","r">>, <<"d","r",".">>>>),
       Abbr(<<"l","a","n","e">>, <<<<"l","n">>, <<"l","n",".">>>>),
       Abbr(<<"c","o","u","r","t">>, <<<<"c","t">>, <<"c","t",".">>>>),
       Abbr(<<"p","l","a","c","e">>, <<<<"p","l">>, <<"p","l",".">>>>) >>
SpanishWords == {<<"c","a","l","l","e">>, <<"a","v","e","n","i","d","a">>, <<"p","l","a","z","a">>, <<"p","a","s","e","o">>, <<"c","a","r","r","e","r","a">>, <<"d","i","a","g","o","n","a","l">>,
                 <<"t","r","a","n","s","v","e","r","s","a","l">>}
EnglishWords == {<<"s","t","r","e","e","t">>, <<"a","v","e","n","u","e">>, <<"b","o","u","l","e","v","a","r","d">>, <<"r","o","a","d">>, <<"d","r","i","v","e">>, <<"l","a","n","e">>,
                 <<"c","o","u","r","t">>, <<"p","l","a","c","e">>}

RECURSIVE ApplyAbbreviations(_, _, _)
ApplyAbbreviations(s, full, abbrevs) ==
    IF abbrevs = <<>> \/ s = <<>> THEN s
    ELSE ApplyAbbreviations(SubWord(s, Head(abbrevs), full), full, Tail(abbrevs))

\* a substitution that applies every entry, whatever the target language
RECURSIVE ApplyTableUngated(_, _, _)
ApplyTableUngated(s, table, target_language) ==
    IF table = <<>> \/ s = <<>> THEN s
    ELSE ApplyTableUngated(ApplyAbbreviations(s, Head(table).full, Head(table).abbrevs),
                           Tail(table), target_language)

RECURSIVE ApplyTable(_, _, _)
ApplyTable(s, table, target_language) ==
    IF table = <<>> \/ s = <<>> THEN s
    ELSE LET e == Head(table)
             applies == \/ target_language = "es" /\ e.full \in SpanishWords
                        \/ target_language = "en" /\ e.full \in EnglishWords
         IN ApplyTable(IF applies THEN ApplyAbbreviations(s, e.full, e.abbrevs) ELSE s,
                       Tail(table), target_language)

normalize_address_format(address, target_language) ==
    IF address = <<>> THEN address
    ELSE LET lowered == Strip(Lower(address))
             expanded == ApplyTable(lowered, common_abbreviations, target_language)
             words == Split(expanded)
             capitalized == Join([k \in 1..Len(words) |-> Capitalize(words[k])], <<" ">>)
         IN Strip(CollapseSpaces(capitalized))

(***************************************************************************)
(* detect_incomplete_address.  The argument is a Python value; the caller  *)
(* checks DetectRaises first.                                              *)
(***************************************************************************)
StreetKeywords == {<<"c","a","l","l","e">>, <<"a","v","e","n","i","d","a">>, <<"s","t","r","e","e","t">>, <<"a","v","e","n","u","e">>, <<"r","o","a","d">>, <<"d","r","i","v","e">>,
                   <<"c","/">>, <<"a","v">>, <<"s","t">>, <<"r","d">>}
\* r'\b\d{5}(-\d{4})?\b|\b[A-Z]\d[A-Z]\s?\d[A-Z]\d\b'
PostalShapePattern ==
    { <<WordBoundary, It("d", 5, 5), WordBoundary>>,
      <<WordBoundary, It("d", 5, 5), It("-", 1, 1), It("d", 4, 4), WordBoundary>>,
      <<WordBoundary, It("A-Z", 1, 1), It("d", 1, 1), It("A-Z", 1, 1), It("s", 0, 1),
        It("d", 1, 1), It("A-Z", 1, 1), It("d", 1, 1), WordBoundary>> }
ComponentOrder == <<"street_number", "street_name", "city", "postal_code">>

\* address.lower() on a value that is neither falsy nor a str
DetectRaises(address) == Truthy(address) /\ ~IsStr(address)

detect_incomplete_address(address) ==
    IF ~Truthy(address)
    THEN [is_complete |-> FALSE, missing_components |-> <<"address">>,
          confidence |-> 0, components_found |-> None]
    ELSE LET a == address.s
             address_lower == Lower(a)
             found == [street_number |-> \E k \in 1..Len(a) : IsDigit(a[k]),
                       street_name |-> \E kw \in StreetKeywords : Contains(address_lower, kw),
                       city |-> \E k \in 1..Len(a) : a[k] = ",",
                       postal_code |-> ReSearch(PostalShapePattern, a)]
             missing_components == SelectSeq(ComponentOrder, LAMBDA c : ~found[c])
             total_components == 4
             present_components == total_components - Len(missing_components)
         IN [is_complete |-> Len(missing_components) = 0,
             missing_components |-> missing_components,
             confidence |-> (present_components * 100) \div total_components,
             components_found |-> Some(found)]

(***************************************************************************)
(* suggest_address_corrections (address is a str)                          *)
(***************************************************************************)
common_corrections ==
    << <<<<"c","a","l","l","l","e">>, <<"c","a","l","l","e">>>>, <<<<"a","v","e","n","í","d","a">>, <<"a","v","e","n","i","d","a">>>>, <<<<"a","v","e","n","d","i","a">>, <<"a","v","e","n","i","d","a">>>>,
       <<<<"p","l","a","s","a">>, <<"p","l","a","z","a">>>>, <<<<"c","a","r","r","r","e","r","a">>, <<"c","a","r","r","e","r","a">>>>, <<<<"s","t","r","e","t">>, <<"s","t","r","e","e","t">>>>,
       <<<<"s","t","r","e","a","t">>, <<"s","t","r","e","e","t">>>>, <<<<"a","v","e","n","u">>, <<"a","v","e","n","u","e">>>>, <<<<"b","o","u","l","v","a","r","d">>, <<"b","o","u","l","e","v","a","r","d">>>> >>

\* a loop that corrects the lower-cased address afresh for every entry
RECURSIVE TypoPassFromOriginal(_, _)
TypoPassFromOriginal(corrected, table) ==
    IF table = <<>> \/ corrected = <<>> THEN <<>>
    ELSE IF Contains(corrected, Head(table)[1])
    THEN <<Title(Replace(corrected, Head(table)[1], Head(table)[2]))>>
         \o TypoPassFromOriginal(corrected, Tail(table))
    ELSE TypoPassFromOriginal(corrected, Tail(table))

\* the loop over common_corrections: the suggestions it appends
RECURSIVE TypoPass(_, _)
TypoPass(corrected, table) ==
    IF table = <<>> \/ corrected = <<>> THEN <<>>
    ELSE LET error == Head(table)[1]
             correction == Head(table)[2]
         IN IF Contains(corrected, error)
            THEN LET fixed == Replace(corrected, error, correction)
                 IN <<Title(fixed)>> \o TypoPass(fixed, Tail(table))
            ELSE TypoPass(corrected, Tail(table))

DefaultMaxSuggestions == 3

suggest_address_corrections(address, max_suggestions) ==
    IF address = <<>> THEN <<>>
    ELSE LET typo == TypoPass(Lower(address), common_corrections)
             normalized == normalize_address_format(address, "es")
             suggestions == IF normalized # address /\ normalized \notin Range(typo)
                            THEN Append(typo, normalized) ELSE typo
         IN PySliceTo(suggestions, max_suggestions)

(***************************************************************************)
(* _merge_address_data (both arguments are str)                            *)
(***************************************************************************)
\* re.search(r'\d+', s).group(): the leftmost maximal run of digits
FirstDigitRun(s) ==
    LET first == Min({k \in 1..Len(s) : IsDigit(s[k])})
        last == Max({e \in first..Len(s) : \A j \in first..e : IsDigit(s[j])})
    IN Slice(s, first, last)
HasDigit(s) == \E k \in 1..Len(s) : IsDigit(s[k])

merge_address_data(partial_address, full_address) ==
    IF Strip(partial_address) = <<>> THEN full_address
    ELSE LET partial_words == Range(Split(Lower(partial_address)))
             full_words == Range(Split(Lower(full_address)))
             unique_partial_words == partial_words \ full_words
         IN IF unique_partial_words # {} /\ HasDigit(partial_address)
               /\ ~HasDigit(full_address)
            THEN FirstDigitRun(partial_address) \o <<" ">> \o full_address
            ELSE full_address

(***************************************************************************)
(* validate_postal_code.  postal_code is a Python value, country_code an   *)
(* optional str.  A pattern is named in the result by its value.           *)
(***************************************************************************)
D5 == {<<It("d", 5, 5)>>}
postal_patterns ==
    << <<<<"E","S">>, D5>>,
       <<<<"U","S">>, {<<It("d", 5, 5)>>, <<It("d", 5, 5), It("-", 1, 1), It("d", 4, 4)>>}>>,
       <<<<"C","A">>, {<<It("A-Z", 1, 1), It("d", 1, 1), It("A-Z", 1, 1), It("s", 0, 1),
                  It("d", 1, 1), It("A-Z", 1, 1), It("d", 1, 1)>>}>>,
       <<<<"M","X">>, D5>>,
       <<<<"G","B">>, {<<It("A-Z", 1, 2), It("d", 1, 1), It("A-Zd", 0, 1), It("s", 0, 1),
                  It("d", 1, 1), It("A-Z", 2, 2)>>}>>,
       <<<<"F","R">>, D5>>,
       <<<<"D","E">>, D5>>,
       <<<<"I","T">>, D5>>,
       <<<<"B","R">>, {<<It("d", 5, 5), It("-", 0, 1), It("d", 3, 3)>>}>>,
       <<<<"A","R">>, {<<It("A-Z", 0, 1), It("d", 4, 4), It("A-Z", 3, 3)>>, <<It("d", 4, 4)>>}>>,
       <<<<"C","O">>, {<<It("d", 6, 6)>>}>> >>
PatternCountries == {postal_patterns[k][1] : k \in DOMAIN postal_patterns}
PatternOf(country) ==
    postal_patterns[CHOOSE k \in DOMAIN postal_patterns : postal_patterns[k][1] = country][2]

\* str.upper()
Upper(s) == [k \in 1..Len(s) |-> ToUpper(s[k])]

\* postal_code.strip() on a value that is neither falsy nor a str
ValidatePostalRaises(postal_code) == Truthy(postal_code) /\ ~IsStr(postal_code)

\* a lookup of the country code as given, without upper-casing it
KnownCountryAsWritten(country_code) ==
    country_code # None /\ country_code[1] \in PatternCountries

\* `if country_code and country_code.upper() in postal_patterns`
KnownCountry(country_code) ==
    /\ country_code # None
    /\ country_code[1] # <<>>
    /\ Upper(country_code[1]) \in PatternCountries

\* a scan that keeps the last country whose pattern matches
LastMatch(matching) == Max(matching)

\* `for country, pattern in postal_patterns.items(): if re.match(...): return`
FirstMatch(matching) == Min(matching)

validate_postal_code(postal_code, country_code) ==
    LET blank == [is_valid |-> FALSE, reason |-> None, country_code |-> None,
                  pattern_used |-> None, possible_country |-> None,
                  pattern_matched |-> None, cleaned_postal_code |-> None]
    IN IF ~Truthy(postal_code)
       THEN [blank EXCEPT !.reason = Some("empty_postal_code")]
       ELSE LET postal_code_clean == Upper(Strip(postal_code.s))
                known == KnownCountry(country_code)
                matching == {k \in DOMAIN postal_patterns :
                                ReFullMatch(postal_patterns[k][2], postal_code_clean)}
            IN IF known
               THEN LET pattern == PatternOf(Upper(country_code[1]))
                    IN [blank EXCEPT
                          !.is_valid = ReFullMatch(pattern, postal_code_clean),
                          !.country_code = Some(Upper(country_code[1])),
                          !.pattern_used = Some(pattern),
                          !.cleaned_postal_code = Some(postal_code_clean)]
               ELSE IF matching # {}
               THEN [blank EXCEPT
                       !.is_valid = TRUE,
                       !.possible_country = Some(postal_patterns[FirstMatch(matching)][1]),
                       !.pattern_matched = Some(postal_patterns[FirstMatch(matching)][2]),
                       !.cleaned_postal_code = Some(postal_code_clean)]
               ELSE [blank EXCEPT
                       !.reason = Some("no_pattern_match"),
                       !.cleaned_postal_code = Some(postal_code_clean)]

(***************************************************************************)
(* The geocoding provider (OpenCageGeocode, external).  A call raises,     *)
(* returns the empty list, or returns a list whose first candidate is c.   *)
(***************************************************************************)
Raise == [k |-> "raise"]
Empty == [k |-> "empty"]
Hit(c) == [k |-> "hit", c |-> c]
\* the place of a call that is not issued
NoCall == [k |-> "nocall"]

CompKeys == {"country", "country_code", "state", "state_code", "province", "county",
             "city", "town", "village", "suburb", "neighbourhood", "postcode"}
NoComponents == [k \in CompKeys |-> None]
AnnKeys == {"continent", "currency", "callingcode", "flag", "geohash", "what3words",
            "MGRS", "Maidenhead", "Mercator", "OSM", "UN_M49", "DMS"}
NoAnnotations == [timezone |-> None, other |-> [k \in AnnKeys |-> None]]

CandMadrid ==
    [formatted |-> <<"C","/"," ","M","a","y","o","r",","," ","M","a","d","r","i","d">>,
     components |-> [NoComponents EXCEPT !["country"] = Some(PyStr(<<"E","s","p","a","ñ","a">>)),
                                         !["country_code"] = Some(PyStr(<<"e","s">>)),
                                         !["city"] = Some(PyStr(<<"M","a","d","r","i","d">>)),
                                         !["postcode"] = Some(PyStr(<<"2","8","0","1","3">>))],
     geometry |-> [lat |-> 40, lng |-> -3],
     confidence |-> Some(9),
     annotations |-> [timezone |-> Some([name |-> Some("Europe/Madrid"),
                                         offset_sec |-> Some(3600),
                                         offset_string |-> None]),
                      other |-> [k \in AnnKeys |->
                                    IF k \in {"currency", "geohash", "DMS", "MGRS"}
                                    THEN Some(k) ELSE None]]]
\* a candidate at latitude 0 with a numeric postcode, no confidence and no
\* annotations (the answer to a request with no_annotations=1)
CandEquator ==
    [formatted |-> <<"G","r","a","n"," ","V","í","a"," ","2","5">>,
     components |-> [NoComponents EXCEPT !["postcode"] = Some(PyNum(28013))],
     geometry |-> [lat |-> 0, lng |-> 5],
     confidence |-> None,
     annotations |-> NoAnnotations]
Candidates == {CandMadrid, CandEquator}
Outcomes == {Raise, Empty} \cup {Hit(c) : c \in Candidates}

\* dict.get(key, default) on a mapping of optional values
Get(d, key, default) == IF d[key] # None THEN d[key][1] ELSE default

\* the loop `for key, value in components.items(): if isinstance(value, str): ...`
CleanComponents(components, aggressive) ==
    [k \in CompKeys |->
        IF components[k] # None /\ IsStr(components[k][1])
        THEN Some(PyStr(clean_address_text(components[k][1].s, aggressive)))
        ELSE components[k]]

(***************************************************************************)
(* Records (the dicts of the batch and the result of complete_address): a  *)
(* mapping from every key the code reads or writes to an optional value.   *)
(***************************************************************************)
ResultKeys == {"original_address", "completed_address", "method_used", "confidence",
               "components", "suggestions", "coordinates", "error"}
RecordKeys == ResultKeys \cup
              {"address", "lat", "lng", "normalized_address", "postal_validation",
               "timezone", "administrative_levels", "geographic_info", "quality_info",
               "coordinate_systems", "enrichment_timestamp", "enrichment_version",
               "enrichment_error", "quality_metrics", "processing_error"}
EmptyDict == [k \in RecordKeys |-> None]
\* d.update(e)
Update(d, e) == [k \in DOMAIN d |-> IF k \in DOMAIN e /\ e[k] # None THEN e[k] ELSE d[k]]

(***************************************************************************)
(* complete_address.  rev and fwd are the provider's answers to the        *)
(* reverse and the forward call, should the code issue them.               *)
(***************************************************************************)
ReverseConfidence == 90
ForwardConfidenceCap == 80
DefaultProviderConfidence == 5

\* a completion that goes on to the forward lookup after a successful reverse one
CompletionForwardAlsoAfterHit(partial_address, coordinates, rev) ==
    /\ coordinates = None \/ rev.k \in {"empty", "hit"}
    /\ IsStr(partial_address)
    /\ Strip(partial_address.s) # <<>>

\* a completion that falls back on the forward lookup when the reverse one raised
CompletionForwardAlsoAfterRaise(partial_address, coordinates, rev) ==
    /\ coordinates = None \/ rev.k \in {"empty", "raise"}
    /\ IsStr(partial_address)
    /\ Strip(partial_address.s) # <<>>

\* the forward call of complete_address is reached and issued
CompletionForwardIssued(partial_address, coordinates, rev) ==
    /\ coordinates = None \/ rev.k = "empty"
    /\ IsStr(partial_address)
    /\ Strip(partial_address.s) # <<>>

\* the provider calls of one complete_address, in order, each with its outcome
complete_address_calls(partial_address, coordinates, rev, fwd) ==
    (IF coordinates # None THEN <<[call |-> "reverse", outcome |-> rev.k]>> ELSE <<>>)
    \o (IF CompletionForwardIssued(partial_address, coordinates, rev)
        THEN <<[call |-> "forward", outcome |-> fwd.k]>> ELSE <<>>)

\* an except clause that also blanks the completed address
CompletionFailedBlankingAddress(result, e) ==
    [result EXCEPT !["error"] = Some(e), !["method_used"] = Some("error"),
                   !["completed_address"] = Some(PyStr(<<>>))]

\* an except clause that swallows the exception
CompletionFailedSilently(result, e) == result

\* except Exception as e: result['error'] = str(e); result['method_used'] = 'error'
CompletionFailed(result, e) ==
    [result EXCEPT !["error"] = Some(e), !["method_used"] = Some("error")]

\* a rescaling that forgets the cap
ForwardConfidenceUncapped(candidate) ==
    Get(candidate, "confidence", DefaultProviderConfidence) * 10

\* confidence = result.get('confidence', 5) / 10.0, then min(confidence, 0.8)
ForwardConfidence(candidate) ==
    LET confidence == Get(candidate, "confidence", DefaultProviderConfidence) * 10
    IN IF confidence < ForwardConfidenceCap THEN confidence ELSE ForwardConfidenceCap

complete_address(partial_address, coordinates, language, clean_special_chars, aggressive, rev, fwd) ==
    LET result == [k \in ResultKeys |->
                     CASE k \in {"original_address", "completed_address"} ->
                              Some(partial_address)
                       [] k = "method_used" -> Some("none")
                       [] k = "confidence" -> Some(0)
                       [] k = "components" -> Some(NoComponents)
                       [] k = "suggestions" -> Some(<<>>)
                       [] OTHER -> None]
        Failed(e) == CompletionFailed(result, e)
        FullAddress(c) == IF clean_special_chars
                          THEN clean_address_text(c.formatted, aggressive)
                          ELSE c.formatted
        Components(c) == IF clean_special_chars
                         THEN CleanComponents(c.components, aggressive)
                         ELSE c.components
        \* Estrategia 1
        Reverse(c) ==
            IF ~IsStr(partial_address) THEN Failed("AttributeError")
            ELSE [result EXCEPT
                    !["completed_address"] =
                        Some(PyStr(merge_address_data(partial_address.s, FullAddress(c)))),
                    !["method_used"] = Some("reverse_geocoding"),
                    !["confidence"] = Some(ReverseConfidence),
                    !["components"] = Some(Components(c))]
        WithSuggestions(r) ==
            [r EXCEPT !["suggestions"] =
                Some(suggest_address_corrections(partial_address.s, DefaultMaxSuggestions))]
        \* Estrategia 2
        Forward ==
            IF ~IsStr(partial_address) THEN Failed("AttributeError")
            ELSE IF Strip(partial_address.s) = <<>> THEN WithSuggestions(result)
            ELSE CASE fwd.k = "raise" -> Failed("ProviderError")
                   [] fwd.k = "hit" ->
                        WithSuggestions(
                             [result EXCEPT
                                !["completed_address"] = Some(PyStr(FullAddress(fwd.c))),
                                !["method_used"] = Some("forward_geocoding"),
                                !["confidence"] = Some(ForwardConfidence(fwd.c)),
                                !["components"] = Some(Components(fwd.c)),
                                !["coordinates"] = Some([lat |-> fwd.c.geometry.lat,
                                                         lng |-> fwd.c.geometry.lng])])
                   [] OTHER -> WithSuggestions(result)
    IN IF coordinates # None
       THEN CASE rev.k = "raise" -> Failed("ProviderError")
              [] rev.k = "hit" -> Reverse(rev.c)
              [] OTHER -> Forward
       ELSE Forward

(***************************************************************************)
(* enrich_location_data.  fwd and rev are the provider's answers to the    *)
(* forward and the reverse call, should the code issue them; now is the    *)
(* reading of the clock.                                                   *)
(***************************************************************************)
AdminKeys == CompKeys \ {"postcode"}
EnrichmentVersion == <<"1",".","0">>

\* an enrichment that looks the address up even when it was given coordinates
EnrichForwardAlways(address_data, coordinates) ==
    /\ address_data["address"] # None
    /\ Truthy(address_data["address"][1])

\* `if not coordinates and address_data.get('address')`
EnrichForwardIssued(address_data, coordinates) ==
    /\ coordinates = None
    /\ address_data["address"] # None
    /\ Truthy(address_data["address"][1])

\* lat, lng after the optional forward lookup: None, or <<lat, lng>>
EnrichPosition(address_data, coordinates, fwd) ==
    IF EnrichForwardIssued(address_data, coordinates)
    THEN (IF fwd.k = "hit" THEN Some(<<fwd.c.geometry.lat, fwd.c.geometry.lng>>) ELSE None)
    ELSE coordinates

\* `if lat and lng`
EnrichReverseIssued(address_data, coordinates, fwd) ==
    LET pos == EnrichPosition(address_data, coordinates, fwd)
    IN /\ ~(EnrichForwardIssued(address_data, coordinates) /\ fwd.k = "raise")
       /\ pos # None
       /\ pos[1][1] # 0
       /\ pos[1][2] # 0

\* the provider calls of one enrich_location_data, in order, each with its outcome
enrich_location_data_calls(address_data, coordinates, fwd, rev) ==
    (IF EnrichForwardIssued(address_data, coordinates)
     THEN <<[call |-> "forward", outcome |-> fwd.k]>> ELSE <<>>)
    \o (IF EnrichReverseIssued(address_data, coordinates, fwd)
        THEN <<[call |-> "reverse", outcome |-> rev.k]>> ELSE <<>>)

\* an except clause that also forgets the coordinates found so far
EnrichmentFailedLosingCoordinates(enriched, e) ==
    [enriched EXCEPT !["enrichment_error"] = Some(e), !["coordinates"] = None]

\* except Exception as e: enriched['enrichment_error'] = str(e)
EnrichmentFailed(enriched, e) == [enriched EXCEPT !["enrichment_error"] = Some(e)]

enrich_location_data(address_data, coordinates, clean_special_chars, aggressive, fwd, rev, now) ==
    LET forward == EnrichForwardIssued(address_data, coordinates)
        \* enriched after the forward lookup
        located == IF forward /\ fwd.k = "hit"
                   THEN [address_data EXCEPT
                           !["coordinates"] = Some([lat |-> fwd.c.geometry.lat,
                                                    lng |-> fwd.c.geometry.lng])]
                   ELSE address_data
        Failed(enriched, e) == EnrichmentFailed(enriched, e)
        Stamped(enriched) ==
            [enriched EXCEPT !["enrichment_timestamp"] = Some(now),
                             !["enrichment_version"] = Some(EnrichmentVersion)]
        Detailed(enriched, c) ==
            LET components == IF clean_special_chars
                              THEN CleanComponents(c.components, aggressive)
                              ELSE c.components
                annotations == c.annotations.other
                timezone_info == IF c.annotations.timezone # None
                                 THEN c.annotations.timezone[1]
                                 ELSE [name |-> None, offset_sec |-> None,
                                       offset_string |-> None]
                base ==
                  [enriched EXCEPT
                    !["timezone"] =
                        Some([name |-> Get(timezone_info, "name", ""),
                              offset_sec |-> Get(timezone_info, "offset_sec", 0),
                              offset_string |-> Get(timezone_info, "offset_string", "")]),
                    !["administrative_levels"] =
                        Some([k \in AdminKeys |-> Get(components, k, PyStr(<<>>))]),
                    !["geographic_info"] =
                        Some([postcode |-> Get(components, "postcode", PyStr(<<>>)),
                              continent |-> Get(annotations, "continent", ""),
                              currency |-> Get(annotations, "currency", "{}"),
                              calling_code |-> Get(annotations, "callingcode", ""),
                              flag |-> Get(annotations, "flag", ""),
                              geohash |-> Get(annotations, "geohash", ""),
                              what3words |-> Get(annotations, "what3words", "{}")]),
                    !["quality_info"] =
                        Some([mgrs |-> Get(annotations, "MGRS", ""),
                              maidenhead |-> Get(annotations, "Maidenhead", ""),
                              mercator |-> Get(annotations, "Mercator", "{}"),
                              osm |-> Get(annotations, "OSM", "{}"),
                              un_m49 |-> Get(annotations, "UN_M49", "{}")])]
            IN IF annotations["DMS"] # None
               THEN [base EXCEPT
                       !["coordinate_systems"] =
                           Some([dms |-> annotations["DMS"][1],
                                 mgrs |-> Get(annotations, "MGRS", ""),
                                 maidenhead |-> Get(annotations, "Maidenhead", "")])]
               ELSE base
    IN IF forward /\ fwd.k = "raise" THEN Failed(address_data, "ProviderError")
       ELSE IF EnrichReverseIssued(address_data, coordinates, fwd)
       THEN CASE rev.k = "raise" -> Failed(located, "ProviderError")
              [] rev.k = "hit" -> Stamped(Detailed(located, rev.c))
              [] OTHER -> Stamped(located)
       ELSE Stamped(located)

(***************************************************************************)
(* float(x) for the values a lat/lng cell holds: a number, None, or a str  *)
(* that is an integer literal or not numeric at all.                       *)
(***************************************************************************)
DigitSeq == <<"0","1","2","3","4","5","6","7","8","9">>
RECURSIVE DigitsValue(_)
DigitsValue(s) ==
    IF s = <<>> THEN 0
    ELSE DigitsValue(Slice(s, 1, Len(s) - 1)) * 10 + (IndexIn(s[Len(s)], DigitSeq) - 1)
Signed(s) == s # <<>> /\ s[1] \in {"-", "+"}
Unsigned(s) == IF Signed(s) THEN Tail(s) ELSE s
FloatRaises(v) ==
    \/ v.t = "none"
    \/ /\ v.t = "str"
       /\ LET body == Unsigned(Strip(v.s))
          IN body = <<>> \/ \E k \in 1..Len(body) : ~IsDigit(body[k])
FloatOf(v) ==
    IF v.t = "num" THEN v.n
    ELSE LET t == Strip(v.s)
         IN IF Signed(t) /\ t[1] = "-" THEN 0 - DigitsValue(Unsigned(t))
            ELSE DigitsValue(Unsigned(t))

(***************************************************************************)
(* State.  process_address_batch is run once on a list of dicts, which it  *)
(* mutates in place; processed_addresses holds references to those dicts   *)
(* (their positions in addresses).  complete_address is also called on its *)
(* own, from the state where no batch has started.                         *)
(***************************************************************************)
VARIABLES
    addresses,            \* the argument list: position |-> dict
    delay,                \* seconds (an integer here), possibly negative
    language,
    clean_special_chars,
    aggressive,
    i,                    \* 1-based position of the record in hand, 0 before the loop
    pc,                   \* the statement process_address_batch is about to run
    address,              \* locals of the loop body; they outlive an iteration
    coordinates,
    completeness,
    final_coords,
    exc,                  \* the exception in flight, for the except clause
    processed_addresses,  \* the list being built, then returned
    events,               \* provider calls and pauses, in order, with record and outcome
    clock,                \* seconds slept so far
    call_args,            \* the arguments of a direct complete_address call
    call_result           \* None, or what that call returned

vars == <<addresses, delay, language, clean_special_chars, aggressive, i, pc, address,
          coordinates, completeness, final_coords, exc, processed_addresses, events,
          clock, call_args, call_result>>
batch_args == <<delay, language, clean_special_chars, aggressive>>
direct_vars == <<call_args, call_result>>

(***************************************************************************)
(* Inputs                                                                  *)
(***************************************************************************)
\* longest batch
MaxBatch == 2

Rec(addr, lat, lng) ==
    [EmptyDict EXCEPT !["address"] = addr, !["lat"] = lat, !["lng"] = lng]
InputRecords ==
    { Rec(Some(PyStr(<<"c","a","l","l","l","e"," ","m","a","y","o","r">>)), None, None),
      Rec(Some(PyStr(<<"m","a","y","o","r"," ","5">>)), Some(PyNum(41)), Some(PyStr(<<"-","4">>))),
      Rec(Some(PyStr(<<"c","/"," ","1",","," ","2","8","0","1","3">>)), Some(PyNum(40)), Some(PyNum(-3))),
      Rec(Some(PyStr(<<"x">>)), Some(PyStr(<<"a","b","c">>)), Some(PyNum(1))),
      Rec(Some(PyNum(1)), None, None) }
Batches == UNION { [1..n -> InputRecords] : n \in 0..MaxBatch }
\* <<delay, language, clean_special_chars, aggressive>>
BatchArguments == {<<1, "es", FALSE, FALSE>>, <<-1, "en", TRUE, TRUE>>}
\* the provider's answers to the calls of the batch's enrichment step
BatchEnrichOutcomes == {Raise, Empty, Hit(CandMadrid)}

Partials == {PyStr(<<"c","a","l","l","l","e"," ","m","a","y","o","r">>), PyStr(<<"m","a","y","o","r"," ","5">>), PyStr(<<>>), PyStr(<<" ">>),
             PyStr(<<"B","a","r","c","e","l","o","n","a">>), PyStr(<<"7"," ","m","a","y","o","r">>), PyNone}
CoordinateArgs == {None, Some(<<40, -3>>), Some(<<0, 0>>)}
\* the provider's confidence scale is 0..ProviderScale
ProviderScale == 10
ScaledCandidates ==
    {[CandMadrid EXCEPT !.confidence = Some(c)] : c \in 0..ProviderScale}
\* the provider's answers to the calls of a direct complete_address
DirectOutcomes == Outcomes \cup {Hit(c) : c \in ScaledCandidates}
NoArgs == [partial_address |-> PyNone, coordinates |-> None, language |-> "es",
           clean_special_chars |-> FALSE, aggressive |-> FALSE]
NoCompleteness == detect_incomplete_address(PyNone)

InitBatchState ==
    /\ i = 0
    /\ pc = "loop"
    /\ address = PyNone
    /\ coordinates = None
    /\ completeness = NoCompleteness
    /\ final_coords = None
    /\ exc = None
    /\ processed_addresses = <<>>
    /\ events = <<>>
    /\ clock = 0

\* a call of process_address_batch
Init ==
    /\ addresses \in Batches
    /\ \E args \in BatchArguments :
          /\ delay = args[1]
          /\ language = args[2]
          /\ clean_special_chars = args[3]
          /\ aggressive = args[4]
    /\ InitBatchState
    /\ call_args = NoArgs
    /\ call_result = None

(***************************************************************************)
(* process_address_batch, statement by statement                           *)
(***************************************************************************)
N == Len(addresses)
addr_data == addresses[i]
SetRecord(d) == addresses' = [addresses EXCEPT ![i] = d]
Goto(label) == pc' = label
\* an exception leaves the try block for the except clause
Throw(e) == pc' = "except" /\ exc' = Some(e)
Log(step, calls) ==
    events' = events \o [k \in 1..Len(calls) |->
                            [step |-> step, call |-> calls[k].call, record |-> i,
                             outcome |-> calls[k].outcome]]

\* for i, addr_data in enumerate(addresses)
NextRecord ==
    /\ pc = "loop"
    /\ i < N
    /\ i' = i + 1
    /\ Goto("extract")
    /\ UNCHANGED <<addresses, batch_args, address, coordinates, completeness,
                   final_coords, exc, processed_addresses, events, clock, direct_vars>>

\* return processed_addresses
Return ==
    /\ pc = "loop"
    /\ i >= N
    /\ Goto("returned")
    /\ UNCHANGED <<addresses, batch_args, i, address, coordinates, completeness,
                   final_coords, exc, processed_addresses, events, clock, direct_vars>>

\* address = addr_data.get('address', ''); coordinates = (float(lat), float(lng))
Extract ==
    /\ pc = "extract"
    /\ address' = Get(addr_data, "address", PyStr(<<>>))
    /\ IF addr_data["lat"] # None /\ addr_data["lng"] # None
       THEN IF FloatRaises(addr_data["lat"][1]) \/ FloatRaises(addr_data["lng"][1])
            THEN /\ coordinates' = None
                 /\ Throw(IF addr_data["lat"][1].t = "none" \/ addr_data["lng"][1].t = "none"
                          THEN "TypeError" ELSE "ValueError")
            ELSE /\ coordinates' = Some(<<FloatOf(addr_data["lat"][1]),
                                          FloatOf(addr_data["lng"][1])>>)
                 /\ Goto("detect")
                 /\ UNCHANGED exc
       ELSE /\ coordinates' = None
            /\ Goto("detect")
            /\ UNCHANGED exc
    /\ UNCHANGED <<addresses, batch_args, i, completeness, final_coords,
                   processed_addresses, events, clock, direct_vars>>

\* Paso 1
Detect ==
    /\ pc = "detect"
    /\ IF DetectRaises(address)
       THEN Throw("AttributeError") /\ UNCHANGED completeness
       ELSE /\ completeness' = detect_incomplete_address(address)
            /\ Goto("complete")
            /\ UNCHANGED exc
    /\ UNCHANGED <<addresses, batch_args, i, address, coordinates, final_coords,
                   processed_addresses, events, clock, direct_vars>>

CompletenessThreshold == 70
\* a completion that runs only for an address showing no signal at all
NeedsCompletionOnlyWithoutSignal == completeness.confidence = 0
\* `if not completeness['is_complete'] or completeness['confidence'] < 0.7`
NeedsCompletion == ~completeness.is_complete \/ completeness.confidence < CompletenessThreshold

\* a completion step that lets the provider's exception through
CompleteReraising ==
    /\ pc = "complete"
    /\ IF NeedsCompletion
       THEN \E rev \in IF coordinates # None THEN Outcomes ELSE {NoCall} :
            \E fwd \in IF CompletionForwardIssued(address, coordinates, rev)
                       THEN Outcomes ELSE {NoCall} :
                /\ Log("complete", complete_address_calls(address, coordinates, rev, fwd))
                /\ IF rev.k = "raise" \/ fwd.k = "raise"
                   THEN Throw("ProviderError") /\ UNCHANGED addresses
                   ELSE /\ SetRecord(Update(addr_data,
                              complete_address(address, coordinates, language,
                                               clean_special_chars, aggressive, rev, fwd)))
                        /\ Goto("normalize")
                        /\ UNCHANGED exc
       ELSE Goto("normalize") /\ UNCHANGED <<addresses, events, exc>>
    /\ UNCHANGED <<batch_args, i, address, coordinates, completeness, final_coords,
                   processed_addresses, clock, direct_vars>>

\* Paso 2
Complete ==
    /\ pc = "complete"
    /\ IF NeedsCompletion
       THEN \E rev \in IF coordinates # None THEN Outcomes ELSE {NoCall} :
            \E fwd \in IF CompletionForwardIssued(address, coordinates, rev)
                       THEN Outcomes ELSE {NoCall} :
                /\ SetRecord(Update(addr_data,
                       complete_address(address, coordinates, language,
                                        clean_special_chars, aggressive, rev, fwd)))
                /\ Log("complete", complete_address_calls(address, coordinates, rev, fwd))
       ELSE UNCHANGED <<addresses, events>>
    /\ Goto("normalize")
    /\ UNCHANGED <<batch_args, i, address, coordinates, completeness, final_coords, exc,
                   processed_addresses, clock, direct_vars>>

\* a pipeline that gives up on a record whose completion failed
NormalizeUnlessError ==
    /\ pc = "normalize"
    /\ IF addr_data["method_used"] = Some("error")
       THEN Goto("quality") /\ UNCHANGED addresses
       ELSE /\ IF addr_data["completed_address"] # None
                  /\ Truthy(addr_data["completed_address"][1])
               THEN SetRecord([addr_data EXCEPT !["normalized_address"] =
                        Some(normalize_address_format(
                                addr_data["completed_address"][1].s, language))])
               ELSE UNCHANGED addresses
            /\ Goto("validate")
    /\ UNCHANGED <<batch_args, i, address, coordinates, completeness, final_coords, exc,
                   processed_addresses, events, clock, direct_vars>>

\* Paso 3
Normalize ==
    /\ pc = "normalize"
    /\ IF addr_data["completed_address"] # None /\ Truthy(addr_data["completed_address"][1])
       THEN SetRecord([addr_data EXCEPT !["normalized_address"] =
                Some(normalize_address_format(addr_data["completed_address"][1].s,
                                              language))])
       ELSE UNCHANGED addresses
    /\ Goto("validate")
    /\ UNCHANGED <<batch_args, i, address, coordinates, completeness, final_coords, exc,
                   processed_addresses, events, clock, direct_vars>>

\* Paso 4
ValidatePostal ==
    /\ pc = "validate"
    /\ LET components == Get(addr_data, "components", NoComponents)
       IN IF components["postcode"] # None
          THEN IF ValidatePostalRaises(components["postcode"][1])
               THEN Throw("AttributeError") /\ UNCHANGED addresses
               ELSE /\ SetRecord([addr_data EXCEPT !["postal_validation"] =
                        Some(validate_postal_code(
                                components["postcode"][1],
                                IF components["country_code"] # None
                                THEN Some(components["country_code"][1].s) ELSE None))])
                    /\ Goto("enrich")
                    /\ UNCHANGED exc
          ELSE Goto("enrich") /\ UNCHANGED <<addresses, exc>>
    /\ UNCHANGED <<batch_args, i, address, coordinates, completeness, final_coords,
                   processed_addresses, events, clock, direct_vars>>

\* a resolution that prefers the coordinates found by the completion
FinalCoordinatesPreferringCompletion(coords, record) ==
    IF record["coordinates"] # None
    THEN Some(<<record["coordinates"][1].lat, record["coordinates"][1].lng>>)
    ELSE coords

\* final_coords = coordinates; if not final_coords and addr_data.get('coordinates')
FinalCoordinates(coords, record) ==
    IF coords = None /\ record["coordinates"] # None
    THEN Some(<<record["coordinates"][1].lat, record["coordinates"][1].lng>>)
    ELSE coords

\* Paso 5
Enrich ==
    /\ pc = "enrich"
    /\ LET coords == FinalCoordinates(coordinates, addr_data)
       IN /\ final_coords' = coords
          /\ \E fwd \in IF EnrichForwardIssued(addr_data, coords)
                        THEN BatchEnrichOutcomes ELSE {NoCall} :
             \E rev \in IF EnrichReverseIssued(addr_data, coords, fwd)
                        THEN BatchEnrichOutcomes ELSE {NoCall} :
                /\ SetRecord(Update(addr_data,
                       enrich_location_data(addr_data, coords, clean_special_chars,
                                            aggressive, fwd, rev, clock)))
                /\ Log("enrich", enrich_location_data_calls(addr_data, coords, fwd, rev))
    /\ Goto("quality")
    /\ UNCHANGED <<batch_args, i, address, coordinates, completeness, exc,
                   processed_addresses, clock, direct_vars>>

\* quality_metrics, processed_addresses.append(addr_data), `if i < len(addresses) - 1`
Quality ==
    /\ pc = "quality"
    /\ SetRecord([addr_data EXCEPT !["quality_metrics"] =
           Some([completeness_score |-> completeness.confidence,
                 has_coordinates |-> final_coords # None,
                 method_used |-> Get(addr_data, "method_used", "none"),
                 processing_timestamp |-> clock])])
    /\ processed_addresses' = Append(processed_addresses, i)
    /\ Goto(IF i < N THEN "sleep" ELSE "loop")
    /\ UNCHANGED <<batch_args, i, address, coordinates, completeness, final_coords, exc,
                   events, clock, direct_vars>>

\* time.sleep(delay), which raises ValueError on a negative delay
Sleep ==
    /\ pc = "sleep"
    /\ IF delay < 0
       THEN /\ Throw("ValueError")
            /\ Log("pause", <<[call |-> "sleep", outcome |-> "raise"]>>)
            /\ UNCHANGED clock
       ELSE /\ clock' = clock + delay
            /\ Log("pause", <<[call |-> "sleep", outcome |-> "done"]>>)
            /\ Goto("loop")
            /\ UNCHANGED exc
    /\ UNCHANGED <<addresses, batch_args, i, address, coordinates, completeness,
                   final_coords, processed_addresses, direct_vars>>

\* an except clause that ends the batch at the first bad record
ExceptAborting ==
    /\ pc = "except"
    /\ SetRecord([addr_data EXCEPT !["processing_error"] = exc])
    /\ processed_addresses' = Append(processed_addresses, i)
    /\ exc' = None
    /\ Goto("returned")
    /\ UNCHANGED <<batch_args, i, address, coordinates, completeness, final_coords,
                   events, clock, direct_vars>>

\* except Exception as e
Except ==
    /\ pc = "except"
    /\ SetRecord([addr_data EXCEPT !["processing_error"] = exc])
    /\ processed_addresses' = Append(processed_addresses, i)
    /\ exc' = None
    /\ Goto("loop")
    /\ UNCHANGED <<batch_args, i, address, coordinates, completeness, final_coords,
                   events, clock, direct_vars>>

Next ==
    \/ NextRecord
    \/ Extract
    \/ Detect
    \/ Complete
    \/ Normalize
    \/ ValidatePostal
    \/ Enrich
    \/ Quality
    \/ Sleep
    \/ Except
    \/ Return

Spec == Init /\ [][Next]_vars

(***************************************************************************)
(* complete_address called directly                                        *)
(***************************************************************************)
InitComplete ==
    /\ addresses = <<>>
    /\ delay = 1
    /\ language = "es"
    /\ clean_special_chars = FALSE
    /\ aggressive = FALSE
    /\ InitBatchState
    /\ call_args \in [partial_address : Partials, coordinates : CoordinateArgs,
                      language : {"es"}, clean_special_chars : BOOLEAN,
                      aggressive : BOOLEAN]
    /\ call_result = None

CallCompleteAddress ==
    /\ call_result = None
    /\ \E rev \in IF call_args.coordinates # None THEN DirectOutcomes ELSE {NoCall} :
       \E fwd \in IF CompletionForwardIssued(call_args.partial_address,
                                             call_args.coordinates, rev)
                  THEN DirectOutcomes ELSE {NoCall} :
          call_result' =
              Some([rev |-> rev,
                    fwd |-> fwd,
                    calls |-> complete_address_calls(call_args.partial_address,
                                                     call_args.coordinates, rev, fwd),
                    result |-> complete_address(call_args.partial_address,
                                                call_args.coordinates,
                                                call_args.language,
                                                call_args.clean_special_chars,
                                                call_args.aggressive, rev, fwd)])
    /\ UNCHANGED <<addresses, batch_args, i, pc, address, coordinates, completeness,
                   final_coords, exc, processed_addresses, events, clock, call_args>>

NextComplete == CallCompleteAddress

SpecComplete == InitComplete /\ [][NextComplete]_vars

(***************************************************************************)
(* enrich_location_data called directly                                    *)
(***************************************************************************)
\* the records handed to enrich_location_data: empty, with an address (a str,
\* blank or not a str), and one that a forward completion has filled
EnrichRecords ==
    { EmptyDict,
      Rec(Some(PyStr(<<"m","a","y","o","r"," ","5">>)), None, None),
      Rec(Some(PyStr(<<>>)), Some(PyNum(40)), Some(PyNum(-3))),
      Rec(Some(PyNum(1)), None, None),
      Update(Rec(Some(PyStr(<<"m","a","y","o","r"," ","5">>)), None, None),
             complete_address(PyStr(<<"m","a","y","o","r"," ","5">>), None, "es", FALSE,
                              FALSE, NoCall, Hit(CandEquator))) }
InitEnrich ==
    /\ addresses = <<>>
    /\ delay = 1
    /\ language = "es"
    /\ clean_special_chars = FALSE
    /\ aggressive = FALSE
    /\ InitBatchState
    /\ call_args \in [address_data : EnrichRecords, coordinates : CoordinateArgs,
                      clean_special_chars : BOOLEAN, aggressive : BOOLEAN]
    /\ call_result = None

\* an enrichment that writes its results into the record it was given
CallEnrichLocationDataInPlace ==
    /\ call_result = None
    /\ \E fwd \in IF EnrichForwardIssued(call_args.address_data, call_args.coordinates)
                  THEN Outcomes ELSE {NoCall} :
       \E rev \in IF EnrichReverseIssued(call_args.address_data, call_args.coordinates,
                                         fwd)
                  THEN Outcomes ELSE {NoCall} :
          call_result' =
              Some([fwd |-> fwd,
                    rev |-> rev,
                    calls |-> enrich_location_data_calls(call_args.address_data,
                                                         call_args.coordinates, fwd, rev),
                    result |-> enrich_location_data(call_args.address_data,
                                                    call_args.coordinates,
                                                    call_args.clean_special_chars,
                                                    call_args.aggressive, fwd, rev,
                                                    clock)])
    /\ UNCHANGED <<addresses, batch_args, i, pc, address, coordinates, completeness,
                   final_coords, exc, processed_addresses, events, clock>>
    /\ call_args' = [call_args EXCEPT !.address_data = call_result'[1].result]

CallEnrichLocationData ==
    /\ call_result = None
    /\ \E fwd \in IF EnrichForwardIssued(call_args.address_data, call_args.coordinates)
                  THEN Outcomes ELSE {NoCall} :
       \E rev \in IF EnrichReverseIssued(call_args.address_data, call_args.coordinates,
                                         fwd)
                  THEN Outcomes ELSE {NoCall} :
          call_result' =
              Some([fwd |-> fwd,
                    rev |-> rev,
                    calls |-> enrich_location_data_calls(call_args.address_data,
                                                         call_args.coordinates, fwd, rev),
                    result |-> enrich_location_data(call_args.address_data,
                                                    call_args.coordinates,
                                                    call_args.clean_special_chars,
                                                    call_args.aggressive, fwd, rev,
                                                    clock)])
    /\ UNCHANGED <<addresses, batch_args, i, pc, address, coordinates, completeness,
                   final_coords, exc, processed_addresses, events, clock, call_args>>

NextEnrich == CallEnrichLocationData

SpecEnrich == InitEnrich /\ [][NextEnrich]_vars

(***************************************************************************)
(* The text functions called directly: detect_incomplete_address,          *)
(* normalize_address_format, validate_postal_code, clean_address_text and  *)
(* suggest_address_corrections, each on a str or on None.                  *)
(***************************************************************************)
\* an argument text is made of at most MaxTokens tokens
MaxTokens == 3
RECURSIVE Concats(_, _)
Concats(tokens, n) ==
    IF n = 0 THEN {<<>>}
    ELSE LET shorter == Concats(tokens, n - 1)
         IN shorter \cup {p \o t : p \in shorter, t \in tokens}
Texts(tokens) == {PyNone} \cup {PyStr(t) : t \in Concats(tokens, MaxTokens)}

DetectTokens == {<<"c","/">>, <<"7">>, <<",">>, <<" ">>, <<"2","8","0","1","3">>, <<"K","1","A"," ","0","A","9">>}
NormalizeTokens == {<<"c","/">>, <<"c","l",".">>, <<"a","v">>, <<" ">>, <<"g","r","a","n">>, <<"p","l">>, <<"s","t">>}
NormalizeExamples == {<<"c","/"," ","g","r","a","n"," ","v","i","a"," ","2","5">>, <<"a","v","."," ","i","n","s","u","r","g","e","n","t","e","s"," ","s","u","r"," ","1","2","3","4">>, <<"p","l","."," ","m","a","y","o","r"," ","1","5">>}
PostalTokens == {<<"2","8","0","1","3">>, <<"1","2","3">>, <<"K","1","A">>, <<" ">>, <<"0","A","9">>, <<"k">>}
PostalExamples == {<<"1","2","3","4","5","-","6","7","8","9">>, <<"S","W","1","A"," ","1","A","A">>, <<"1","2","3","4">>, <<"B","1","6","3","6","F","D","A">>, <<"1","2","3","4","5","-","6","7","8">>, <<"K","1","A"," ","0","A","9">>, <<"k","1","a"," ","0","a","9">>}
CountryCodes == {None} \cup {Some(c) : c \in {<<"E","S">>, <<"e","s">>, <<"C","A">>, <<"c","a">>, <<"U","S">>, <<"X","X">>, <<>>}}
CleanTokens == {<<" ">>, <<"\t">>, <<"#">>, <<"á">>, <<"ß">>, <<"a">>}
SuggestTokens == {<<"c","a","l","l","l","e">>, <<"p","l","a","s","a">>, <<" ">>, <<"s","t","r","e","t">>, <<"C","a","l","l","e">>, <<"c","/">>}

FunctionCall(op, text) ==
    [op |-> op, text |-> text, target_language |-> "es", country_code |-> None,
     aggressive |-> FALSE, max_suggestions |-> DefaultMaxSuggestions]
FunctionCalls ==
    {FunctionCall("detect", t) : t \in Texts(DetectTokens)}
    \cup {[FunctionCall("normalize", t) EXCEPT !.target_language = l] :
             t \in Texts(NormalizeTokens) \cup {PyStr(e) : e \in NormalizeExamples},
             l \in {"es", "en", "fr"}}
    \cup {[FunctionCall("validate", t) EXCEPT !.country_code = c] :
             t \in Texts(PostalTokens) \cup {PyStr(e) : e \in PostalExamples},
             c \in CountryCodes}
    \cup {[FunctionCall("clean", t) EXCEPT !.aggressive = a] :
             t \in Texts(CleanTokens), a \in BOOLEAN}
    \cup {[FunctionCall("suggest", t) EXCEPT !.max_suggestions = n] :
             t \in Texts(SuggestTokens), n \in 0..DefaultMaxSuggestions}

InitFunctions ==
    /\ addresses = <<>>
    /\ delay = 1
    /\ language = "es"
    /\ clean_special_chars = FALSE
    /\ aggressive = FALSE
    /\ InitBatchState
    /\ call_args \in FunctionCalls
    /\ call_result = None

\* what a direct call leaves alone
call_frame == <<addresses, batch_args, i, pc, address, coordinates, completeness,
                final_coords, exc, processed_addresses, events, clock, call_args>>

CallDetect ==
    /\ call_result = None
    /\ call_args.op = "detect"
    /\ call_result' = Some([result |-> detect_incomplete_address(call_args.text)])
    /\ UNCHANGED call_frame

\* `if not address: return address`
CallNormalize ==
    /\ call_result = None
    /\ call_args.op = "normalize"
    /\ call_result' =
          Some([result |-> IF ~Truthy(call_args.text) THEN call_args.text
                           ELSE PyStr(normalize_address_format(call_args.text.s,
                                                               call_args.target_language))])
    /\ UNCHANGED call_frame

CallValidatePostal ==
    /\ call_result = None
    /\ call_args.op = "validate"
    /\ call_result' = Some([result |-> validate_postal_code(call_args.text,
                                                            call_args.country_code)])
    /\ UNCHANGED call_frame

\* `if not text: return text`
CallClean ==
    /\ call_result = None
    /\ call_args.op = "clean"
    /\ call_result' =
          Some([result |-> IF ~Truthy(call_args.text) THEN call_args.text
                           ELSE PyStr(clean_address_text(call_args.text.s,
                                                         call_args.aggressive))])
    /\ UNCHANGED call_frame

\* `if not address: return []`
CallSuggest ==
    /\ call_result = None
    /\ call_args.op = "suggest"
    /\ call_result' =
          Some([result |-> IF ~Truthy(call_args.text) THEN <<>>
                           ELSE suggest_address_corrections(call_args.text.s,
                                                            call_args.max_suggestions)])
    /\ UNCHANGED call_frame

NextFunctions ==
    \/ CallDetect
    \/ CallNormalize
    \/ CallValidatePostal
    \/ CallClean
    \/ CallSuggest

SpecFunctions == InitFunctions /\ [][NextFunctions]_vars

(***************************************************************************)
(* What a batch has done so far, read from the records and the call log    *)
(***************************************************************************)
Returned == pc = "returned"
\* the iteration of record k is over
Handled(k) == k < i \/ (k = i /\ pc \in {"loop", "returned"})
\* a provider call made for record k raised
ProviderRaised(k) ==
    \E n \in 1..Len(events) : /\ events[n].record = k
                              /\ events[n].call \in {"reverse", "forward"}
                              /\ events[n].outcome = "raise"
\* the pause after record k raised
PauseFailed(k) ==
    \E n \in 1..Len(events) : /\ events[n].record = k
                              /\ events[n].call = "sleep"
                              /\ events[n].outcome = "raise"
\* the pauses that took place
Pauses == SelectSeq(events, LAMBDA e : e.call = "sleep" /\ e.outcome = "done")
Methods == {"none", "reverse_geocoding", "forward_geocoding", "error"}

\* what a direct call of complete_address returned
Called == call_result # None
Result == call_result[1].result

(***************************************************************************)
(* process_address_batch                                                   *)
(***************************************************************************)
\* C1: process_address_batch returns exactly the input records, each once and
\* in input order, for every delay and every provider behaviour.  It does not:
\* a pause that raises (a negative delay) sends the record, already appended,
\* to the except clause, which appends it again.
C1_OutputIsInput ==
    Returned => processed_addresses = [k \in 1..N |-> k]

\* C2 as stated: in a batch where the provider call of exactly one record
\* raises (and nothing else goes wrong), the records come back in order,
\* exactly one bears processing_error and the others are fully processed.
C2_OneProcessingError ==
    (Returned /\ delay >= 0 /\ Cardinality({k \in 1..N : ProviderRaised(k)}) = 1)
    => /\ processed_addresses = [k \in 1..N |-> k]
       /\ Cardinality({k \in 1..N : addresses[k]["processing_error"] # None}) = 1
       /\ \A k \in 1..N : addresses[k]["processing_error"] = None
                          => addresses[k]["quality_metrics"] # None

\* C2 amended: a provider call that raises is caught where it is made.  The
\* record bears error with method_used = 'error' (completion) or
\* enrichment_error (enrichment), it still gets its quality_metrics, and it
\* bears a processing_error only if its pause failed, never the provider's.
C2_ProviderFailureIsData ==
    \A k \in 1..N :
        (Handled(k) /\ ProviderRaised(k))
        => /\ \/ /\ addresses[k]["error"] # None
                 /\ addresses[k]["method_used"] = Some("error")
              \/ addresses[k]["enrichment_error"] # None
           /\ addresses[k]["quality_metrics"] # None
           /\ addresses[k]["processing_error"] # Some("ProviderError")
           /\ addresses[k]["processing_error"] # None => PauseFailed(k)

\* two records, the provider raised for the first only, both fully processed
C2_Witness ==
    /\ Returned
    /\ N = 2
    /\ ProviderRaised(1)
    /\ ~ProviderRaised(2)
    /\ \A k \in 1..N : /\ addresses[k]["quality_metrics"] # None
                       /\ addresses[k]["processing_error"] = None

\* C3: an exception raised in steps 1-7 for a record is caught: the record is
\* tagged with processing_error and appended, every record after it is still
\* taken through the loop, and the batch returns only after its last record.
C3_ExceptionIsolation ==
    /\ pc = "except" => exc # None
    /\ Returned => i = N
    /\ \A k \in 1..N :
          Handled(k)
          => /\ \E n \in 1..Len(processed_addresses) : processed_addresses[n] = k
             /\ \/ addresses[k]["quality_metrics"] # None
                \/ addresses[k]["processing_error"] # None
             /\ (addresses[k]["quality_metrics"] = None
                 => addresses[k]["processing_error"] # None)

\* the first record failed on a non-string address or postcode, the second
\* went through the whole pipeline
C3_Witness ==
    /\ Returned
    /\ N = 2
    /\ addresses[1]["processing_error"] = Some("AttributeError")
    /\ addresses[1]["quality_metrics"] = None
    /\ addresses[2]["quality_metrics"] # None
    /\ addresses[2]["processing_error"] = None

\* C6: every returned record has confidence set and method_used one of the
\* four values, records with a complete address and failed records included.
\* It does not: both fields are written by the completion step only.
C6_ConfidenceAndMethodSet ==
    Returned => \A k \in 1..N : /\ addresses[k]["confidence"] # None
                                /\ addresses[k]["method_used"] \in
                                       {Some(m) : m \in Methods}

\* C9: with a pause that does not fail, a batch of N records pauses N-1 times,
\* once after each record but the last, whatever happened to that record.  It
\* does not: a record that raised in steps 1-7 is not followed by a pause.
C9_PauseBetweenRecords ==
    (Returned /\ delay >= 0)
    => /\ Len(Pauses) = (IF N = 0 THEN 0 ELSE N - 1)
       /\ \A n \in 1..Len(Pauses) : Pauses[n].record = n

\* C10: after complete_address returned method_used = 'error' the record still
\* goes through steps 3-7: its completed address is normalized, it is
\* enriched (stamped, or tagged enrichment_error), it gets quality_metrics,
\* and the failure shows only in error / enrichment_error.
C10_PipelineContinuesAfterError ==
    \A k \in 1..N :
        (Handled(k) /\ addresses[k]["method_used"] = Some("error"))
        => /\ addresses[k]["error"] # None
           /\ Truthy(addresses[k]["completed_address"][1])
              => addresses[k]["normalized_address"] # None
           /\ \/ addresses[k]["enrichment_version"] # None
              \/ addresses[k]["enrichment_error"] # None
           /\ addresses[k]["quality_metrics"] # None
           /\ addresses[k]["quality_metrics"][1].method_used = "error"
           /\ addresses[k]["processing_error"] # None => PauseFailed(k)

\* a record whose completion failed, normalized, enriched and measured
C10_Witness ==
    /\ Returned
    /\ \E k \in 1..N : /\ addresses[k]["method_used"] = Some("error")
                       /\ addresses[k]["normalized_address"] =
                              Some(normalize_address_format(
                                      addresses[k]["completed_address"][1].s, language))
                       /\ addresses[k]["enrichment_version"] # None
                       /\ addresses[k]["quality_metrics"] # None
                       /\ addresses[k]["processing_error"] = None

(***************************************************************************)
(* complete_address                                                        *)
(***************************************************************************)
\* C4: complete_address returns a result record for every partial address,
\* coordinates value and provider behaviour, and when a provider call raised
\* the result carries an error string and method_used = 'error'.
C4_NeverRaises ==
    Called
    => /\ \A key \in ResultKeys \ {"coordinates", "error"} : Result[key] # None
       /\ Result["method_used"] \in {Some(m) : m \in Methods}
       /\ (call_result[1].rev.k = "raise" \/ call_result[1].fwd.k = "raise")
          => /\ Result["error"] # None
             /\ Result["method_used"] = Some("error")

\* the forward call raised after an empty reverse result
C4_Witness ==
    /\ Called
    /\ call_result[1].rev.k = "empty"
    /\ call_result[1].fwd.k = "raise"
    /\ Result["method_used"] = Some("error")

\* C5: after every call of complete_address the suggestions are those of
\* suggest_address_corrections on the original partial address.  They are
\* not: the reverse branch returns before they are computed, and so does the
\* except clause.
C5_SuggestionsAlwaysPopulated ==
    (Called /\ IsStr(call_args.partial_address))
    => Result["suggestions"] =
           Some(suggest_address_corrections(call_args.partial_address.s,
                                            DefaultMaxSuggestions))

\* C7: with coordinates and a non-empty reverse result, for every partial
\* address string and every provider confidence, the result has method_used =
\* 'reverse_geocoding' and confidence 0.9, and the reverse call is the only
\* provider call.
C7_ReverseWins ==
    (/\ Called
     /\ IsStr(call_args.partial_address)
     /\ call_args.coordinates # None
     /\ call_result[1].rev.k = "hit")
    => /\ Result["method_used"] = Some("reverse_geocoding")
       /\ Result["confidence"] = Some(ReverseConfidence)
       /\ call_result[1].calls = <<[call |-> "reverse", outcome |-> "hit"]>>
       /\ call_result[1].fwd = NoCall

\* the empty partial address, a candidate of provider confidence 0
C7_Witness ==
    /\ Called
    /\ call_args.partial_address = PyStr(<<>>)
    /\ call_args.coordinates # None
    /\ call_result[1].rev.k = "hit"
    /\ call_result[1].rev.c.confidence = Some(0)
    /\ Result["confidence"] = Some(ReverseConfidence)

\* C8: a forward lookup that answers with provider confidence c in 0..10
\* gives method_used = 'forward_geocoding', confidence min(c/10, 0.8), within
\* [0, 1], and the candidate's geometry as coordinates.
C8_ForwardConfidence ==
    (/\ Called
     /\ call_result[1].fwd.k = "hit"
     /\ call_result[1].fwd.c.confidence # None
     /\ call_result[1].fwd.c.confidence[1] \in 0..ProviderScale)
    => LET c == call_result[1].fwd.c.confidence[1]
       IN /\ Result["method_used"] = Some("forward_geocoding")
          /\ Result["confidence"] = Some(Min({c * 10, ForwardConfidenceCap}))
          /\ Result["confidence"][1] \in 0..100
          /\ Result["coordinates"] =
                 Some([lat |-> call_result[1].fwd.c.geometry.lat,
                       lng |-> call_result[1].fwd.c.geometry.lng])

\* the cap applies: provider confidence 10 gives 0.8
C8_Witness ==
    /\ Called
    /\ call_result[1].fwd.k = "hit"
    /\ call_result[1].fwd.c.confidence = Some(ProviderScale)
    /\ Result["confidence"] = Some(ForwardConfidenceCap)

(***************************************************************************)
(* enrich_location_data                                                    *)
(***************************************************************************)
\* the record as it stands when the reverse lookup is about to be made
BeforeReverse ==
    IF call_result[1].fwd.k = "hit"
    THEN [call_args.address_data EXCEPT
            !["coordinates"] = Some([lat |-> call_result[1].fwd.c.geometry.lat,
                                     lng |-> call_result[1].fwd.c.geometry.lng])]
    ELSE call_args.address_data

\* C11: enrich_location_data returns a record in every case, and when a
\* provider call raised the record carries enrichment_error while every
\* other field has the value it had just before the failure: the input
\* fields, and the coordinates a forward lookup had found.
C11_FailureKeepsFields ==
    Called
    => /\ DOMAIN Result = RecordKeys
       /\ (call_result[1].fwd.k = "raise" \/ call_result[1].rev.k = "raise")
          => /\ Result["enrichment_error"] # None
             /\ \A key \in RecordKeys \ {"enrichment_error"} :
                   Result[key] = BeforeReverse[key]

\* the forward lookup found coordinates, then the reverse lookup raised
C11_Witness ==
    /\ Called
    /\ call_result[1].fwd.k = "hit"
    /\ call_result[1].rev.k = "raise"
    /\ call_args.address_data["coordinates"] = None
    /\ Result["coordinates"] # None
    /\ Result["enrichment_error"] # None

\* C12: every record enrich_location_data returns carries
\* enrichment_timestamp and enrichment_version = '1.0'.  It does not: both
\* are written at the end of the try block, which a provider failure leaves.
C12_AlwaysStamped ==
    Called => /\ Result["enrichment_timestamp"] # None
              /\ Result["enrichment_version"] = Some(EnrichmentVersion)

\* the completion step of the record in hand is over and the record has not failed
PastCompletion == pc \in {"normalize", "validate", "enrich", "quality", "sleep"}
\* a call of the completion step was logged for record k
CompletionCalled(k) ==
    \E n \in 1..Len(events) : events[n].record = k /\ events[n].step = "complete"
\* the fields only complete_address writes
CompletionOnlyKeys == {"original_address", "completed_address", "method_used", "suggestions"}

\* C13: process_address_batch runs the completion for a record exactly when its
\* completeness report has is_complete = false or confidence < 0.7; for a record
\* whose address shows all four signals no completion provider call is made and
\* no completion field is merged into the record.
C13_CompletionExactlyWhenNeeded ==
    PastCompletion
    => /\ (addr_data["original_address"] # None)
          <=> (~completeness.is_complete \/ completeness.confidence < CompletenessThreshold)
       /\ (completeness.missing_components = <<>>)
          => /\ ~CompletionCalled(i)
             /\ \A key \in CompletionOnlyKeys : addr_data[key] = None
             /\ pc \in {"normalize", "validate", "enrich"}
                => \A key \in ResultKeys : addr_data[key] = None
C13_Witness ==
    /\ pc = "quality"
    /\ completeness.missing_components = <<>>
    /\ coordinates # None
    /\ addr_data["original_address"] = None
    /\ i = 2
    /\ addresses[1]["original_address"] # None
    /\ CompletionCalled(1)

\* the lat/lng pair the record came with
InputCoordinates ==
    IF addr_data["lat"] # None /\ addr_data["lng"] # None
    THEN Some(<<FloatOf(addr_data["lat"][1]), FloatOf(addr_data["lng"][1])>>)
    ELSE None
\* the pair the completion wrote into the record
CompletionCoordinates ==
    IF addr_data["coordinates"] # None
    THEN Some(<<addr_data["coordinates"][1].lat, addr_data["coordinates"][1].lng>>)
    ELSE None
\* the calls the enrichment step is about to log
NewEvents == SubSeq(events', Len(events) + 1, Len(events'))

\* C14: the coordinates handed to the enrichment step are the record's input
\* lat/lng whenever both are present, even if the completion also produced
\* coordinates; the completion's coordinates are used only when the record has no
\* input coordinates; otherwise none are passed (and the enrichment has to look
\* the address up itself).
C14_InputCoordinatesFirst ==
    [][pc = "enrich"
       => /\ final_coords' = IF InputCoordinates # None THEN InputCoordinates
                             ELSE CompletionCoordinates
          /\ final_coords' # None
             => \A n \in 1..Len(NewEvents) : NewEvents[n].call # "forward"]_vars
\* a record with input coordinates whose completion found other ones
C14_Witness ==
    /\ pc = "quality"
    /\ InputCoordinates # None
    /\ CompletionCoordinates # None
    /\ CompletionCoordinates # InputCoordinates
    /\ final_coords = InputCoordinates
    /\ addr_data["method_used"] = Some("forward_geocoding")

(***************************************************************************)
(* The text functions                                                      *)
(***************************************************************************)
\* the function called directly is op
Did(op) == call_result # None /\ call_args.op = op

\* C15: for every address given to detect_incomplete_address, the empty string
\* included, is_complete is true iff missing_components is empty,
\* missing_components is a subset of street_number, street_name, city,
\* postal_code listed in that order, and confidence is (4 - |missing|)/4, the
\* fraction of the four signals that components_found reports present.  It is
\* not so for the empty address: the code answers missing_components =
\* ['address'] with confidence 0.0 and without components_found.
C15_ReportShape ==
    Did("detect")
    => LET signals == <<"street_number", "street_name", "city", "postal_code">>
           missing == Result.missing_components
       IN /\ Result.is_complete <=> missing = <<>>
          /\ missing = SelectSeq(signals, LAMBDA c : c \in Range(missing))
          /\ Result.confidence * 4 = (4 - Len(missing)) * 100
          /\ Result.components_found # None
          /\ \A k \in 1..4 :
                Result.components_found[1][signals[k]] <=> signals[k] \notin Range(missing)

\* C16: normalize_address_format with target language es replaces every
\* abbreviation of the Spanish table that is a whole word of the address,
\* spellings ending in '/' or '.' included, by exactly its full word,
\* capitalized; in particular 'c/ gran via 25' becomes 'Calle Gran Via 25'.  It
\* does not: the pattern \bc/\b needs a word character after the slash, so 'c/'
\* before a space stays ('C/ Gran Via 25'), and 'av.' becomes 'Avenida.'.
C16_SpanishAbbreviationsExpanded ==
    (Did("normalize") /\ call_args.target_language = "es" /\ Truthy(call_args.text))
    => LET words == Split(Lower(call_args.text.s))
           out == Split(Result.s)
       IN /\ Len(out) = Len(words)
          /\ \A k \in 1..Len(words) :
             \A n \in 1..Len(common_abbreviations) :
                (/\ common_abbreviations[n].full \in SpanishWords
                 /\ words[k] \in Range(common_abbreviations[n].abbrevs))
                => out[k] = Capitalize(common_abbreviations[n].full)
          /\ call_args.text.s = <<"c","/"," ","g","r","a","n"," ","v","i","a"," ","2","5">>
             => Result.s = <<"C","a","l","l","e"," ","G","r","a","n"," ","V","i","a"," ","2","5">>

\* the country code given is, in upper case, one of the table
C17_CountryOfTable ==
    /\ call_args.country_code # None
    /\ Upper(call_args.country_code[1]) \in PatternCountries

\* the answer to a code given with a known country: that country's pattern alone
\* decides, and the answer names it and the cleaned code
C17_OwnPatternDecides ==
    LET given == call_args.country_code[1]
        cc == Upper(given)
        code == Upper(Strip(call_args.text.s))
        Digits_(s) == \A k \in 1..Len(s) : IsDigit(s[k])
        Letter(c) == c \in AsciiUpper
        five == Len(code) = 5 /\ Digits_(code)
        zip4 == /\ Len(code) = 10
                /\ code[6] = "-"
                /\ Digits_(SubSeq(code, 1, 5))
                /\ Digits_(SubSeq(code, 7, 10))
        canadian ==
            LET c == IF Len(code) = 7 /\ IsSpace(code[4])
                     THEN SubSeq(code, 1, 3) \o SubSeq(code, 5, 7) ELSE code
            IN /\ Len(c) = 6
               /\ Letter(c[1]) /\ IsDigit(c[2]) /\ Letter(c[3])
               /\ IsDigit(c[4]) /\ Letter(c[5]) /\ IsDigit(c[6])
        own == CASE cc = <<"E","S">> -> five
                 [] cc = <<"U","S">> -> five \/ zip4
                 [] cc = <<"C","A">> -> canadian
    IN /\ Result.is_valid <=> own
       /\ Result.country_code = Some(cc)
       /\ Result.pattern_used = Some(PatternOf(cc))
       /\ Result.cleaned_postal_code = Some(code)
       /\ Result.possible_country = None
       /\ Result.pattern_matched = None
       /\ validate_postal_code(PyStr(Lower(call_args.text.s)), Some(Lower(given))).is_valid
             = Result.is_valid
       /\ validate_postal_code(PyStr(Upper(call_args.text.s)), Some(cc)).is_valid
             = Result.is_valid
       /\ (cc = <<"E","S">> /\ code = <<"2","8","0","1","3">>) => Result.is_valid
       /\ (cc = <<"C","A">> /\ code = <<"K","1","A"," ","0","A","9">>) => Result.is_valid
       /\ (cc = <<"E","S">> /\ code = <<"1","2","3">>) => ~Result.is_valid

\* C17 as stated: validate_postal_code with a country code of the table checks
\* the trimmed, uppercased code against that country's pattern only and returns
\* is_valid, the pattern used and the cleaned code; ('28013','ES') and
\* ('K1A 0A9','CA') are valid, ('123','ES') is not, and lower case gives the
\* verdict of upper case.  An empty code is answered before the country is
\* looked at, with a reason and neither pattern nor cleaned code.
C17_KnownCountry ==
    (Did("validate") /\ C17_CountryOfTable) => C17_OwnPatternDecides

\* C17, amended: the statement holds for every non-empty postal code.
C17_KnownCountryNonEmptyCode ==
    (Did("validate") /\ C17_CountryOfTable /\ Truthy(call_args.text))
    => C17_OwnPatternDecides
C17_Witness ==
    /\ Did("validate")
    /\ call_args.country_code = Some(<<"c","a">>)
    /\ call_args.text.s = <<"k","1","a"," ","0","a","9">>
    /\ Result.is_valid
    /\ Result.country_code = Some(<<"C","A">>)

\* C18: validate_postal_code without a country scans the table in declaration
\* order (ES, US, CA, MX, GB, FR, DE, IT, BR, AR, CO) and answers is_valid = true
\* with possible_country the first country whose pattern matches; when no
\* pattern matches it answers is_valid = false with reason no_pattern_match; an
\* empty code is answered is_valid = false without a scan.
C18_FirstMatchInDeclarationOrder ==
    (Did("validate") /\ call_args.country_code = None)
    => LET order == <<<<"E","S">>, <<"U","S">>, <<"C","A">>, <<"M","X">>, <<"G","B">>, <<"F","R">>, <<"D","E">>, <<"I","T">>, <<"B","R">>, <<"A","R">>, <<"C","O">>>>
           code == Upper(Strip(call_args.text.s))
           matches == {k \in 1..Len(order) : ReFullMatch(PatternOf(order[k]), code)}
       IN /\ [k \in 1..Len(postal_patterns) |-> postal_patterns[k][1]] = order
          /\ Result.country_code = None /\ Result.pattern_used = None
          /\ IF ~Truthy(call_args.text)
             THEN /\ ~Result.is_valid
                  /\ Result.reason = Some("empty_postal_code")
                  /\ Result.possible_country = None
                  /\ Result.pattern_matched = None
                  /\ Result.cleaned_postal_code = None
             ELSE IF matches = {}
             THEN /\ ~Result.is_valid
                  /\ Result.reason = Some("no_pattern_match")
                  /\ Result.possible_country = None
                  /\ Result.pattern_matched = None
             ELSE /\ Result.is_valid
                  /\ Result.reason = None
                  /\ \E k \in matches :
                        /\ \A j \in matches : k <= j
                        /\ Result.possible_country = Some(order[k])
                        /\ Result.pattern_matched = Some(PatternOf(order[k]))
          /\ code = <<"2","8","0","1","3">> => Result.possible_country = Some(<<"E","S">>)
          /\ code = <<"1","2","3","4","5","-","6","7","8","9">> => Result.possible_country = Some(<<"U","S">>)
          /\ code = <<"K","1","A"," ","0","A","9">> => Result.possible_country = Some(<<"C","A">>)
          /\ code = <<"S","W","1","A"," ","1","A","A">> => Result.possible_country = Some(<<"G","B">>)
          /\ code = <<"1","2","3","4","5","-","6","7","8">> => Result.possible_country = Some(<<"B","R">>)
          /\ code = <<"1","2","3","4">> => Result.possible_country = Some(<<"A","R">>)
          /\ code = <<"1","2","3","1","2","3">> => Result.possible_country = Some(<<"C","O">>)
          /\ code = <<"1","2","3">> => ~Result.is_valid
\* a code that five countries accept is given to the first of them
C18_Witness ==
    /\ Did("validate")
    /\ call_args.country_code = None
    /\ call_args.text.s = <<"2","8","0","1","3">>
    /\ Cardinality({k \in DOMAIN postal_patterns :
                       ReFullMatch(postal_patterns[k][2], call_args.text.s)}) > 1
    /\ Result.possible_country = Some(<<"E","S">>)

\* C19: clean_address_text is idempotent: for every string x and both values of
\* aggressive, clean(clean(x, a), a) = clean(x, a); an empty or absent input is
\* returned unchanged.
C19_CleanIdempotent ==
    Did("clean")
    => IF ~Truthy(call_args.text)
       THEN Result = call_args.text
       ELSE /\ IsStr(Result)
            /\ clean_address_text(Result.s, call_args.aggressive) = Result.s
\* a text that the cleaning changes in all three ways
C19_Witness ==
    /\ Did("clean")
    /\ call_args.aggressive
    /\ call_args.text.s = <<" ", "#", "ß">>
    /\ Result.s = <<"s", "s">>

\* the lower-cased address after the first m entries of the typo table
RECURSIVE C20_CorrectedAfter(_, _)
C20_CorrectedAfter(s, m) ==
    IF m = 0 THEN s
    ELSE Replace(C20_CorrectedAfter(s, m - 1),
                 common_corrections[m][1], common_corrections[m][2])

\* C20: suggest_address_corrections returns at most max_suggestions candidates
\* (max_suggestions >= 0), in this order: one title-cased candidate per entry of
\* the typo table that matches, in table order, each built on the string already
\* corrected by the earlier entries; then the normalized address, if it differs
\* from the original and from every earlier candidate.  The empty address gives
\* the empty list.
C20_SuggestionsOrderedAndCapped ==
    Did("suggest")
    => IF ~Truthy(call_args.text) THEN Result = <<>>
       ELSE LET a == call_args.text.s
                n == call_args.max_suggestions
                hits == {m \in 1..Len(common_corrections) :
                            Contains(C20_CorrectedAfter(Lower(a), m - 1),
                                     common_corrections[m][1])}
                typo == [k \in 1..Cardinality(hits) |->
                            Title(C20_CorrectedAfter(Lower(a),
                                CHOOSE m \in hits : Cardinality({h \in hits : h < m}) = k - 1))]
                normalized == normalize_address_format(a, "es")
                all == IF normalized # a /\ normalized \notin Range(typo)
                       THEN Append(typo, normalized) ELSE typo
            IN /\ Len(Result) <= n
               /\ Len(Result) = IF n < Len(all) THEN n ELSE Len(all)
               /\ \A k \in 1..Len(Result) : Result[k] = all[k]
\* two typos and a normalized form, cut to two candidates
C20_Witness ==
    /\ Did("suggest")
    /\ call_args.text.s = <<"c","a","l","l","l","e"," ","p","l","a","s","a">>
    /\ call_args.max_suggestions = 2
    /\ Result = << <<"C","a","l","l","e"," ","P","l","a","s","a">>,
                   <<"C","a","l","l","e"," ","P","l","a","z","a">> >>
    /\ Len(suggest_address_corrections(call_args.text.s, DefaultMaxSuggestions)) = 3

(***************************************************************************)
(* complete_address and enrich_location_data, continued                    *)
(***************************************************************************)
\* C22: in the coordinate-anchored strategy, for a non-blank partial address the
\* completed address is the partial's digit sequence, a space and the formatted
\* address whenever that digit sequence does not occur in the formatted address,
\* also when the formatted address contains other digits, and the formatted
\* address verbatim otherwise; for a blank partial it is the formatted address.
\* It is not so when the formatted address has digits of its own: the code
\* prefixes only if the formatted address contains no digit at all.
C22_MergeRule ==
    (/\ Called
     /\ IsStr(call_args.partial_address)
     /\ call_args.coordinates # None
     /\ call_result[1].rev.k = "hit")
    => LET partial == call_args.partial_address.s
           formatted == IF call_args.clean_special_chars
                        THEN clean_address_text(call_result[1].rev.c.formatted,
                                                call_args.aggressive)
                        ELSE call_result[1].rev.c.formatted
           digits == {k \in 1..Len(partial) : IsDigit(partial[k])}
           first == Min(digits)
           last == Max({e \in first..Len(partial) : \A j \in first..e : IsDigit(partial[j])})
           run == SubSeq(partial, first, last)
       IN Result["completed_address"] =
             Some(PyStr(IF Strip(partial) # <<>> /\ digits # {} /\ ~Contains(formatted, run)
                        THEN run \o <<" ">> \o formatted
                        ELSE formatted))

\* C23: enrich_location_data resolves its coordinate pair in priority order (the
\* argument; else the first candidate of a forward lookup on the record's
\* address; else none) and issues exactly one reverse lookup whenever a pair is
\* resolved, for every latitude and longitude including 0.0, and none when no
\* pair is resolved.  It does not for a pair with a zero: `if lat and lng` takes
\* a latitude or longitude of 0.0 for a missing one.
C23_ReverseLookupForEveryPair ==
    (Called /\ "address_data" \in DOMAIN call_args)
    => LET calls == call_result[1].calls
           fwd == call_result[1].fwd
           forwards == {n \in 1..Len(calls) : calls[n].call = "forward"}
           reverses == {n \in 1..Len(calls) : calls[n].call = "reverse"}
           resolved == IF call_args.coordinates # None THEN call_args.coordinates
                       ELSE IF fwd.k = "hit"
                       THEN Some(<<fwd.c.geometry.lat, fwd.c.geometry.lng>>)
                       ELSE None
       IN /\ call_args.coordinates # None => forwards = {}
          /\ Cardinality(forwards) <= 1
          /\ \A f \in forwards : \A r \in reverses : f < r
          /\ Cardinality(reverses) = IF resolved # None THEN 1 ELSE 0

\* C24: normalize_address_format with target_language 'es' substitutes only the
\* Spanish entries, with 'en' only the English entries, so that 'pl' becomes
\* 'plaza' under es and 'place' under en; with any other language nothing is
\* substituted and the address is only lower-cased, capitalized word by word and
\* whitespace-collapsed.
C24_LanguageGating ==
    (Did("normalize") /\ Truthy(call_args.text))
    => LET x == call_args.text.s
           l == call_args.target_language
           words == Split(Lower(x))
           plain == Join([k \in 1..Len(words) |-> Capitalize(words[k])], <<" ">>)
           out == Result.s
           Introduced(w) == Contains(Lower(out), w) /\ ~Contains(Lower(x), w)
       IN /\ l = "es" => \A w \in EnglishWords : ~Introduced(w)
          /\ l = "en" => \A w \in SpanishWords : ~Introduced(w)
          /\ l \notin {"es", "en"} => out = plain
          /\ (l = "es" /\ out # plain) => \E w \in SpanishWords : Introduced(w)
          /\ (l = "en" /\ out # plain) => \E w \in EnglishWords : Introduced(w)
          /\ x = <<"p","l">>
             => out = CASE l = "es" -> <<"P","l","a","z","a">>
                        [] l = "en" -> <<"P","l","a","c","e">>
                        [] OTHER -> <<"P","l">>
\* an address with a spelling of each table, normalized for es
C24_Witness ==
    /\ Did("normalize")
    /\ call_args.target_language = "es"
    /\ call_args.text.s = <<"s","t"," ","p","l">>
    /\ Result.s = <<"S","t"," ","P","l","a","z","a">>

\* C25: in one call of complete_address (partial address a str) a forward lookup
\* is issued only if no coordinates were supplied or the reverse lookup returned
\* no candidates, and only if the partial address is not blank; at most one
\* reverse and one forward call are made, the reverse one first; when the calls
\* made all came back without a candidate (or none was made) the result keeps
\* method_used = 'none', confidence = 0.0 and completed_address = partial.
C25_StrategySelection ==
    (Called /\ IsStr(call_args.partial_address))
    => LET calls == call_result[1].calls
           forwards == {n \in 1..Len(calls) : calls[n].call = "forward"}
           reverses == {n \in 1..Len(calls) : calls[n].call = "reverse"}
       IN /\ Cardinality(forwards) <= 1
          /\ Cardinality(reverses) = IF call_args.coordinates # None THEN 1 ELSE 0
          /\ \A r \in reverses : \A f \in forwards : r < f
          /\ forwards # {}
             => /\ Strip(call_args.partial_address.s) # <<>>
                /\ \/ call_args.coordinates = None
                   \/ \E r \in reverses : calls[r].outcome = "empty"
          /\ (\A n \in 1..Len(calls) : calls[n].outcome = "empty")
             => /\ Result["method_used"] = Some("none")
                /\ Result["confidence"] = Some(0)
                /\ Result["completed_address"] = Some(call_args.partial_address)
                /\ Result["original_address"] = Some(call_args.partial_address)
\* both strategies tried, in order, and both came back empty
C25_Witness ==
    /\ Called
    /\ IsStr(call_args.partial_address)
    /\ call_result[1].calls = <<[call |-> "reverse", outcome |-> "empty"],
                                [call |-> "forward", outcome |-> "empty"]>>
    /\ Result["method_used"] = Some("none")

(***************************************************************************)
(* process_address_batch, continued                                        *)
(***************************************************************************)
\* the positions in the log of the provider calls made for record k
ProviderCalls(k) ==
    {n \in 1..Len(events) : events[n].record = k /\ events[n].call \in {"reverse", "forward"}}

\* C26: process_address_batch issues at most 3 provider calls for any single
\* record (completion reverse and/or forward, enrichment forward and/or reverse),
\* only the completion and the enrichment step issue any, and every provider
\* call for a record happens before any provider call for the next one.
C26_CallBudgetAndOrder ==
    /\ \A k \in 1..N : Cardinality(ProviderCalls(k)) <= 3
    /\ \A n \in 1..Len(events) :
          /\ events[n].call \in {"reverse", "forward"} <=> events[n].step \in {"complete", "enrich"}
          /\ events[n].call \notin {"reverse", "forward"} <=> events[n].step = "pause"
    /\ \A m, n \in 1..Len(events) : m < n => events[m].record <= events[n].record
    /\ \A k \in 1..N : \A m, n \in ProviderCalls(k) :
          (events[m].step = "complete" /\ events[n].step = "enrich") => m < n
\* a record that takes three calls, followed by a call for the next record
C26_Witness ==
    /\ N = 2
    /\ Cardinality(ProviderCalls(1)) = 3
    /\ \E n \in ProviderCalls(1) : events[n].step = "complete" /\ events[n].call = "forward"
    /\ \E n \in ProviderCalls(1) : events[n].step = "enrich" /\ events[n].call = "reverse"
    /\ ProviderCalls(2) # {}

\* C27: in every record returned without processing_error,
\* quality_metrics.has_coordinates is true exactly when the record ends up with
\* known coordinates: input lat/lng, or a coordinates field, whether set by the
\* forward completion or by the enrichment's own forward lookup.  It is not so
\* for the last: has_coordinates is taken from final_coords, which is fixed
\* before the enrichment looks the address up.
C27_HasCoordinatesTellsTheTruth ==
    Returned
    => \A k \in 1..N :
          addresses[k]["processing_error"] = None
          => /\ addresses[k]["quality_metrics"] # None
             /\ addresses[k]["quality_metrics"][1].has_coordinates
                <=> \/ addresses[k]["lat"] # None /\ addresses[k]["lng"] # None
                    \/ addresses[k]["coordinates"] # None

\* C28: every record returned carries exactly one of quality_metrics and
\* processing_error.  It does not when the pause after the record raises (a
\* negative delay): the record already has its quality_metrics and then gets
\* processing_error as well.
C28_MetricsOrErrorNeverBoth ==
    Returned
    => \A k \in 1..N :
          (addresses[k]["quality_metrics"] # None) # (addresses[k]["processing_error"] # None)

\* C29: when complete_address ends with method_used = 'error', the rest of the
\* result is as it was initialised: completed_address = original_address =
\* partial, confidence = 0.0, components and suggestions empty and no
\* coordinates, whichever provider call raised (the reverse one, or the forward
\* one after an empty reverse result or without coordinates).
C29_ErrorLeavesResultInitial ==
    Called
    => /\ (\E n \in 1..Len(call_result[1].calls) : call_result[1].calls[n].outcome = "raise")
          => Result["method_used"] = Some("error")
       /\ Result["method_used"] = Some("error")
          => /\ Result["error"] # None
             /\ Result["original_address"] = Some(call_args.partial_address)
             /\ Result["completed_address"] = Some(call_args.partial_address)
             /\ Result["confidence"] = Some(0)
             /\ Result["components"] = Some(NoComponents)
             /\ Result["suggestions"] = Some(<<>>)
             /\ Result["coordinates"] = None
\* the forward lookup raised after an empty reverse result, on a partial address
\* that would have had suggestions
C29_Witness ==
    /\ Called
    /\ call_result[1].calls = <<[call |-> "reverse", outcome |-> "empty"],
                                [call |-> "forward", outcome |-> "raise"]>>
    /\ call_args.partial_address = PyStr(<<"c","a","l","l","l","e"," ","m","a","y","o","r">>)
    /\ Result["method_used"] = Some("error")
    /\ Result["suggestions"] = Some(<<>>)

\* C30: enrich_location_data leaves the record passed to it unchanged: in every
\* outcome (success, no coordinates, provider failure) no top-level field of the
\* input record is added, removed or reassigned; the results are in the returned
\* copy only, which agrees with the input on every field the enrichment does not
\* compute.
C30_InputRecordUntouched ==
    [][("address_data" \in DOMAIN call_args /\ call_result = None /\ call_result' # None)
       => /\ call_args'.address_data = call_args.address_data
          /\ DOMAIN call_result'[1].result = DOMAIN call_args.address_data
          /\ \A key \in {"address", "lat", "lng", "original_address", "completed_address",
                         "normalized_address", "method_used", "confidence", "components",
                         "suggestions", "error", "postal_validation", "quality_metrics",
                         "processing_error"} :
                call_result'[1].result[key] = call_args.address_data[key]]_vars
\* a successful enrichment: the copy has a timezone, the input still has none
C30_Witness ==
    /\ Called
    /\ "address_data" \in DOMAIN call_args
    /\ call_result[1].rev.k = "hit"
    /\ Result["timezone"] # None
    /\ Result["enrichment_timestamp"] # None
    /\ call_args.address_data["timezone"] = None
    /\ call_args.address_data["enrichment_timestamp"] = None

\* the provider's answers for record k, in call order
C21_Answers(k) ==
    LET mine == SelectSeq(events, LAMBDA e : e.record = k /\ e.call # "sleep")
    IN  [n \in 1..Len(mine) |-> <<mine[n].step, mine[n].call, mine[n].outcome>>]
\* the completion's calls for record k raised or came back empty, so that the
\* logged outcome of every call for k says which answer the provider gave
C21_AnswersIdentified(k) ==
    \A n \in 1..Len(events) :
        (events[n].record = k /\ events[n].step = "complete") => events[n].outcome # "hit"
\* the fields of a record, the two timestamps aside
C21_Fields(d) ==
    [d EXCEPT !["enrichment_timestamp"] = None,
              !["quality_metrics"] = IF @ = None THEN None
                                     ELSE Some([@[1] EXCEPT !.processing_timestamp = 0])]

\* C21: the records of a batch are processed independently: with a
\* deterministic provider, the fields written to a record are the same whatever
\* other records are in the batch. Two records of one batch that came in with
\* the same address, lat and lng and got the same answers from the provider
\* leave with the same fields, the timestamps aside.
C21_RecordIndependence ==
    Returned
    => \A j, k \in 1..N :
          ( /\ addresses[j]["address"] = addresses[k]["address"]
            /\ addresses[j]["lat"] = addresses[k]["lat"]
            /\ addresses[j]["lng"] = addresses[k]["lng"]
            /\ C21_Answers(j) = C21_Answers(k)
            /\ C21_AnswersIdentified(j) /\ C21_AnswersIdentified(k) )
          => C21_Fields(addresses[j]) = C21_Fields(addresses[k])

====
